---- MODULE Spec2Model ----
(***************************************************************************)
(* A model of pyresto: the entity core (pyresto/core.py), the pagination   *)
(* engine Model._rest_call, and the relation descriptors                   *)
(* (pyresto/relations.py).                                                 *)
(*                                                                         *)
(* Conventions.  An optional value (Python None or a value) is a sequence  *)
(* of length 0 or 1: <<>> is None, <<v>> is v.  A dict is a function whose *)
(* domain is a set of strings.  A path is a sequence of segments.          *)
(***************************************************************************)
EXTENDS Integers, Sequences, FiniteSets, TLC

VARIABLES
    heap,   \* instance id -> <<>> (not created) or <<instance record>>
    last,   \* what the last operation did: its requests, outcome and result
    cache,  \* the relation descriptors' caches: <<relation, owner>> -> value
    wrappers \* the WrappedList objects made so far; an object is its index

vars == <<heap, last, cache, wrappers>>

----------------------------------------------------------------------------
(* Bounds of the model. *)

\* longest chain of pages the server links by continuation locators
MaxPages == 3

\* how many times the implicit fetch may re-enter itself before the
\* interpreter's recursion limit ends the access
MaxDepth == 2

\* the longest collection a relation is resolved against, in pages
MaxRelPages == 2

\* the most entries the consumer of a lazy collection asks for; asking for
\* more than the collection holds runs the iteration to its end
MaxTake == 5

\* how many iterations over a lazy collection follow each other
MaxIterations == 2

\* the iterations over one lazy collection that run at once
MaxGenerators == 2

----------------------------------------------------------------------------
(* The transport and the server. *)

None == <<>>
Some(v) == <<v>>
IsNone(o) == Len(o) = 0

ALLOWED_HTTP_METHODS == {"GET", "POST", "PUT", "DELETE", "PATCH"}

\* status codes the server answers with, on both sides of the 2xx range
Statuses == {200, 299, 300, 404}

\* credentials: none, the class default, one set on an instance, one passed
Creds == {"none", "clsCred", "instCred", "argCred"}

\* Model._get_sanitized_url: urljoin(cls._url_base, url).  A continuation
\* locator is a full URL and is kept; a path is put under the base.
IsFullUrl(url) == Len(url) > 0 /\ url[1] = "http"
GetSanitizedUrl(url) == IF IsFullUrl(url) THEN url ELSE <<"base">> \o url

\* the locator of page k of a collection, as the server links it
PageUrl(k) == <<"http", "page", ToString(k)>>

\* What the server holds behind one resource or collection path: pages
\* 1..n, page k carrying the locator of page k+1 and the last one none.
LinkPages(pages) ==
    [k \in 1..Len(pages) |->
        [status |-> pages[k].status, body |-> pages[k].body,
         next |-> IF k < Len(pages) THEN Some(PageUrl(k + 1)) ELSE None]]

\* requests.request(method, url, ...): the response the server gives to a
\* request for url, the first page for a path and page k for its locator.
Request(server, url) ==
    IF IsFullUrl(url)
    THEN server[CHOOSE k \in 1..Len(server) : PageUrl(k) = url]
    ELSE server[1]

\* Model._continuator, as a type with paged collections overrides it: the
\* "next" locator of the response, None when it has none (the default
\* implementation returns None for every response).
Continuator(response) == response.next

\* 200 <= response.status_code < 300
IsSuccessUpTo300(status) == 200 <= status /\ status <= 300

IsSuccess(status) == 200 <= status /\ status < 300

\* the outcome of a call: err = "" when it returned.  An exception carries
\* what it was constructed with: PyrestoServerResponseException gets one
\* message, formatted with response.status_code alone (errStatus); the
\* response body goes to logging.error and not into the exception (errBody).
ReturnedWithoutContinuation(data, cont, reqs) ==
    [err |-> "", errStatus |-> 0, errBody |-> None,
     data |-> data, cont |-> None, reqs |-> reqs]

Raised(err, status, reqs) ==
    [err |-> err, errStatus |-> status, errBody |-> None,
     data |-> None, cont |-> None, reqs |-> reqs]
Returned(data, cont, reqs) ==
    [err |-> "", errStatus |-> 0, errBody |-> None,
     data |-> data, cont |-> cont, reqs |-> reqs]

\* data += more, on Python values: both must be lists
InplaceAddInFront(data, more) == Some(more[1] \o data[1])

InplaceAddFails(data, more) == IsNone(data) \/ IsNone(more)
InplaceAdd(data, more) == Some(data[1] \o more[1])

\* Model._rest_call(url, method, fetch_all, **kwargs) against a server that
\* answers the k-th locator of a chain with chain[k].  kw is the keyword
\* arguments: authGiven ('auth' in kwargs), auth, payload (data=), and
\* clsAuth is cls._auth.  The recursive call passes **kwargs, which holds
\* neither method nor fetch_all: the next page is a GET with fetch_all=True.
RECURSIVE RestCall(_, _, _, _, _)

\* data += cls._rest_call(**kwargs).data, after the call for the rest of the
\* chain came back with rest (an error of that call propagates)
AddRest(req, data, rest) ==
    IF rest.err # ""
    THEN Raised(rest.err, rest.errStatus, <<req>> \o rest.reqs)
    ELSE IF InplaceAddFails(data, rest.data)
    THEN Raised("TypeError", 0, <<req>> \o rest.reqs)
    ELSE Returned(InplaceAdd(data, rest.data), None, <<req>> \o rest.reqs)

\* _rest_call after requests.request answered the request req with
\* response; data is _parser(response_data) if response_data else None
Respond(server, req, response, fetchAll, kw) ==
    IF ~IsSuccess(response.status)
    THEN Raised("ServerResponse", response.status, <<req>>)
    ELSE IF IsNone(Continuator(response))
    THEN Returned(response.body, None, <<req>>)
    ELSE IF ~fetchAll
    THEN Returned(response.body, Continuator(response), <<req>>)
    ELSE AddRest(req, response.body,
                 RestCall(server, Continuator(response)[1], "GET", TRUE, kw))

RestCall(server, url, method, fetchAll, kw) ==
    IF kw.clsAuth # "none" /\ ~kw.authGiven
    THEN Raised("AttributeError", 0, <<>>)               \* cls.auth
    ELSE IF method \notin ALLOWED_HTTP_METHODS
    THEN Raised("InvalidRestMethod", 0, <<>>)
    ELSE Respond(server,
                 [method |-> method, url |-> GetSanitizedUrl(url),
                  auth |-> kw.auth, payload |-> kw.payload],
                 Request(server, GetSanitizedUrl(url)), fetchAll, kw)

\* the keyword arguments of a call that passes auth=, as every call site of
\* the library does
Kw(auth, payload, clsAuth) ==
    [authGiven |-> TRUE, auth |-> auth, payload |-> payload, clsAuth |-> clsAuth]

----------------------------------------------------------------------------
(* What an operation leaves behind for the properties to read. *)

NoOut == Returned(None, None, <<>>)

Done(op, inst, name, arg, out, pre, server) ==
    [op |-> op, inst |-> inst, name |-> name, arg |-> arg, out |-> out,
     pre |-> pre, server |-> server]

----------------------------------------------------------------------------
(* The pagination engine on its own: Model._rest_call as a function of the *)
(* call and of what the server holds.                                      *)

Insts == {"x", "y"}

\* bodies of collection pages: empty text, or a parsed list of entries
PageBodies == {None, Some(<<"a">>), Some(<<"b">>)}

Pages == [status : Statuses, body : PageBodies]

PageChains == UNION {[1..n -> Pages] : n \in 1..MaxPages}

\* the methods a caller passes: two of the allowed ones and one that is not
CallMethods == {"GET", "POST", "HEAD"}

\* ('auth' in kwargs, cls._auth) of a direct call
CallAuths == {<<TRUE, "none">>, <<TRUE, "clsCred">>, <<FALSE, "none">>,
              <<FALSE, "clsCred">>}

\* the calls: every chain of pages, method, mode and credential argument
InitPage ==
    /\ heap = [i \in Insts |-> None]
    /\ cache = <<>>
    /\ wrappers = <<>>
    /\ \E pages \in PageChains, method \in CallMethods, fetchAll \in BOOLEAN,
          a \in CallAuths :
            last = Done("call", "", method,
                        [fetchAll |-> fetchAll,
                         kw |-> [authGiven |-> a[1],
                                 auth |-> IF a[1] THEN "argCred" ELSE "none",
                                 payload |-> None, clsAuth |-> a[2]]],
                        NoOut, None, LinkPages(pages))

\* cls._rest_call(url, method=..., fetch_all=..., [auth=...])
CallRestCall ==
    /\ last.op = "call"
    /\ last' = [last EXCEPT
                    !.op = "rest_call",
                    !.out = RestCall(last.server, <<"items">>, last.name,
                                     last.arg.fetchAll, last.arg.kw)]
    /\ UNCHANGED <<heap, cache, wrappers>>

NextPage == CallRestCall

SpecPage == InitPage /\ [][NextPage]_vars

----------------------------------------------------------------------------
(* Properties of the pagination engine. *)

\* a success status is a 2xx status
Is2xx(status) == status \in 200..299

\* the call got as far as the transport: its method is an allowed one and
\* its credential argument was passed (every call site of the library
\* passes auth=; without it, on a type with a default credential, line 248
\* reads cls.auth and the call ends in AttributeError before dispatch)
Dispatched ==
    /\ last.op = "rest_call"
    /\ last.name \in ALLOWED_HTTP_METHODS
    /\ last.arg.kw.authGiven \/ last.arg.kw.clsAuth = "none"

\* the URL of the request for page k of a collection at /items
PageRequestUrl(k) == IF k = 1 THEN <<"base", "items">> ELSE PageUrl(k)

\* every page of the chain is a success whose body parses to a sequence
AllPagesAreSequences(server) ==
    \A k \in 1..Len(server) : Is2xx(server[k].status) /\ ~IsNone(server[k].body)

RECURSIVE ConcatFrom(_, _)
ConcatFrom(server, k) ==
    IF k > Len(server) THEN <<>> ELSE server[k].body[1] \o ConcatFrom(server, k + 1)

\* C5: with fetch_all=true, a chain of n pages (each a parsed sequence) costs
\* exactly n network calls, one per page in chain order, and the call
\* returns the pages' sequences concatenated in page order, with no
\* continuation left.
FetchAllConcatenatesPages ==
    (Dispatched /\ last.arg.fetchAll /\ AllPagesAreSequences(last.server)) =>
        /\ last.out.err = ""
        /\ Len(last.out.reqs) = Len(last.server)
        /\ \A k \in 1..Len(last.server) : last.out.reqs[k].url = PageRequestUrl(k)
        /\ last.out.data = Some(ConcatFrom(last.server, 1))
        /\ last.out.cont = None

\* a three-page chain a, b, a fetched in one call
FetchAllThreePages ==
    /\ Dispatched /\ last.arg.fetchAll
    /\ Len(last.server) = 3
    /\ AllPagesAreSequences(last.server)
    /\ last.out.data = Some(<<"a", "b", "a">>)
    /\ Len(last.out.reqs) = 3

\* C6: with fetch_all=false the call issues exactly one network call, for
\* the URL it was given, and on success returns that page's data with that
\* response's continuation locator (or none), not following it.
SinglePageReturnsContinuation ==
    (Dispatched /\ ~last.arg.fetchAll) =>
        /\ Len(last.out.reqs) = 1
        /\ last.out.reqs[1].url = PageRequestUrl(1)
        /\ Is2xx(last.server[1].status) =>
                /\ last.out.err = ""
                /\ last.out.data = last.server[1].body
                /\ last.out.cont = last.server[1].next

\* page one of a longer chain, returned with the locator of page two
SinglePageOfLongerChain ==
    /\ Dispatched /\ ~last.arg.fetchAll
    /\ Len(last.server) >= 2
    /\ last.out.data = Some(<<"a">>)
    /\ last.out.cont = Some(PageUrl(2))
    /\ Len(last.out.reqs) = 1

\* the response the k-th request of the last call got
ResponseTo(k) == Request(last.server, last.out.reqs[k].url)

----------------------------------------------------------------------------
(* The resource types (what ModelBase.__new__ leaves on each class). *)

\* Shop is a parent resource; Item is a nested resource with a two-field
\* primary key, a pluggable serializer and a default credential; Note keeps
\* every default of Model; Memo is a subclass of Note that adds nothing.
Types == {"Shop", "Item", "Note", "Memo", "Ticket", "Pos"}

\* issubclass(t, u)
IsSubtype(t, u) == t = u \/ (t = "Memo" /\ u = "Note")

Lit(s) == [ph |-> FALSE, s |-> s]
Ph(s) == [ph |-> TRUE, s |-> s]

\* cls._pk, always a tuple
Pk(t) == IF t = "Item" THEN <<"shop", "id">> ELSE <<"id">>

\* cls._path, a format string: literal segments and {placeholders}
PathTemplate(t) ==
    CASE t = "Shop" -> <<Lit("shops"), Ph("id")>>
      [] t = "Item" -> <<Lit("items"), Ph("shop"), Ph("id")>>
      [] t = "Ticket" -> <<Lit("tickets"), Ph("id")>>
      [] t = "Pos" -> <<Lit("pos"), Ph("id")>>
      [] OTHER      -> <<Lit("notes"), Ph("id")>>

\* cls._auth, the default credential of the type
ClsAuth(t) == IF t = "Item" THEN "clsCred" ELSE "none"

\* cls._serializer is json.dumps unless the type overrides it
UsesJsonDumps(t) == t # "Item"

\* McashModel.get, the alias of read: the types derived from McashModel,
\* Ticket and Pos.  Their Form has the string fields id and name, without
\* validators (as the forms of tests/test_mcash.py), so it always validates.
HasGet(t) == t \in {"Ticket", "Pos"}

\* cls._create_method: POST unless the type says PUT
CreateMethod(t) == IF t = "Pos" THEN "PUT" ELSE "POST"

\* cls._list_path, which the types that create with POST define
ListPath(t) == <<Lit("tickets")>>

\* cls._exclude_from_save
ExcludeFromSave(t) == {"id"}

\* the names under which the type declares relations
RelationNames(t) ==
    IF t = "Shop" THEN {"items", "feed", "note", "ref", "tix"} ELSE {}

\* no name counts as reserved
NoKeyIsReserved(key) == FALSE

\* key.startswith('_'), on the names the model uses
StartsWithUnderscore(key) ==
    key \in {"__items", "__feed", "__note", "__ref", "__tix", "_parent", "_changed", "_fetched",
             "_auth", "_pyresto_owner", "_Model__pk_vals", "_Model__footprint"}

\* str(value) as str.format renders it
Str(o) == IF IsNone(o) THEN "None" ELSE o[1]

\* template.format(**mapping)
Format(template, mapping) ==
    [j \in 1..Len(template) |->
        IF template[j].ph THEN Str(mapping[template[j].s]) ELSE template[j].s]

\* dict(zip(names, values))
Zip(names, values) ==
    [k \in {names[j] : j \in 1..Len(names)} |->
        values[CHOOSE j \in 1..Len(names) : names[j] = k]]

\* d.update(e) on dicts
Update(d, e) == e @@ d

\* not data
Falsy(data) == IsNone(data) \/ DOMAIN data[1] = {}

----------------------------------------------------------------------------
(* Instances. *)

\* The fields kwargs collide with relations of the class are kept under
\* '__' + name (Model.__init__ and Model.__fetch, the loop over overlaps).
MoveOverlaps(t, d) ==
    [k \in {IF n \in RelationNames(t) THEN "__" \o n ELSE n : n \in DOMAIN d} |->
        IF k \in DOMAIN d /\ k \notin RelationNames(t)
        THEN d[k]
        ELSE d[CHOOSE n \in DOMAIN d : n \in RelationNames(t) /\ "__" \o n = k]]

\* Model.__init__(parent, **kwargs).  attrs is the part of __dict__ that
\* holds fields; the other entries of __dict__ are the fields below.
\* pkvals is __pk_vals, fp says whether __footprint was stored, auth is
\* the instance's own _auth ("none": not set, the class default shows).
Construct(t, parent, kwargs) ==
    [cls |-> t, parent |-> parent, attrs |-> MoveOverlaps(t, kwargs),
     changed |-> {}, fetched |-> FALSE, pkvals |-> None, fp |-> FALSE,
     auth |-> "none", owner |-> ""]

\* self._auth: the instance's own credential, else the class default
InstAuth(o) == IF o.auth # "none" THEN o.auth ELSE ClsAuth(o.cls)

IdField(t) == Pk(t)[Len(Pk(t))]

\* Model._id can be read without a lookup that misses; on a McashModel the
\* lookup ends in the form, which has every field
HasId(o) ==
    HasGet(o.cls) \/ ~IsNone(o.pkvals) \/ IdField(o.cls) \in DOMAIN o.attrs

\* Model._id
Id(o) ==
    IF ~IsNone(o.pkvals) THEN o.pkvals[1][Len(o.pkvals[1])]
    ELSE IF IdField(o.cls) \in DOMAIN o.attrs
    THEN Some(o.attrs[IdField(o.cls)])
    ELSE None                         \* the data of a form field never set

\* Model._pk_vals (getter): (None,) * (len(_pk) - 1) + (_id,), stored
PkVals(o) ==
    [j \in 1..Len(Pk(o.cls)) |-> IF j < Len(Pk(o.cls)) THEN None ELSE Id(o)]

\* Model._footprint, the mapping (the 'self' entry is the instance)
Footprint(o) == Zip(Pk(o.cls), PkVals(o))

\* the instance after its _footprint was read: both properties store
StoreFootprint(o) == [o EXCEPT !.pkvals = Some(PkVals(o)), !.fp = TRUE]

\* instance._footprint, read on the instance i of the heap h.  Reading it
\* reads _pk_vals and _id; a missing id on an unfetched instance re-enters
\* __getattr__, __fetch, _current_path and _footprint without end
\* (RuntimeError); on a fetched one it is an AttributeError.
ReadFootprint(h, i) ==
    LET o == h[i][1]
    IN  IF ~HasId(o)
        THEN [err |-> IF o.fetched THEN "AttributeError" ELSE "RuntimeError",
              fp |-> <<>>, heap |-> h]
        ELSE [err |-> "", fp |-> Footprint(o),
              heap |-> [h EXCEPT ![i] = Some(StoreFootprint(o))]]

NoPath(h) == [err |-> "", path |-> <<>>, heap |-> h]

\* _current_path after the parent's path gave up and _footprint gave own:
\* the own template formatted with the own footprint goes after up.path
OwnPart(up, own, t) ==
    IF own.err # "" THEN [err |-> own.err, path |-> <<>>, heap |-> own.heap]
    ELSE [err |-> "", path |-> up.path \o Format(PathTemplate(t), own.fp),
          heap |-> own.heap]

PathAfter(up, i) ==
    IF up.err # "" THEN up
    ELSE OwnPart(up, ReadFootprint(up.heap, i), up.heap[i][1].cls)

\* getattr(parent, '_current_path', ""), after the parent's path gave up:
\* the default stands in for an AttributeError
OrDefault(up) == IF up.err = "AttributeError" THEN NoPath(up.heap) ELSE up

\* Model._current_path: the parent's path, then the own template formatted
\* with the own footprint.  Reading it stores footprints along the chain.
RECURSIVE CurrentPath(_, _)
CurrentPath(h, i) ==
    PathAfter(IF h[i][1].parent = "" THEN NoPath(h)
              ELSE OrDefault(CurrentPath(h, h[i][1].parent)),
              i)

\* the names of the entries of __dict__ that the library itself writes
InternalNames ==
    {"_parent", "_changed", "_fetched", "_Model__pk_vals", "_Model__footprint",
     "_auth", "_pyresto_owner"}

\* the entries of __dict__ that are not fields, each with a token for its
\* value: a set, a tuple, a dict and an instance are not JSON values
Internals(o) ==
    LET keys == {"_parent", "_changed"}
                \cup (IF o.fetched THEN {"_fetched"} ELSE {})
                \cup (IF IsNone(o.pkvals) THEN {} ELSE {"_Model__pk_vals"})
                \cup (IF o.fp THEN {"_Model__footprint"} ELSE {})
                \cup (IF o.auth = "none" THEN {} ELSE {"_auth"})
                \cup (IF o.owner = "" THEN {} ELSE {"_pyresto_owner"})
    IN  [k \in keys |->
            CASE k = "_parent" -> IF o.parent = "" THEN "null" ELSE "<instance>"
              [] k = "_changed" -> "<set>"
              [] k = "_fetched" -> "true"
              [] k = "_Model__pk_vals" -> "<tuple>"
              [] k = "_Model__footprint" -> "<dict with self>"
              [] k = "_auth" -> "<auth>"
              [] OTHER -> "<instance>"]

\* instance.__dict__
InstDict(o) == o.attrs @@ Internals(o)

\* json.dumps(data) raises TypeError on a value that is no JSON value
JsonDumpsFails(data) ==
    \E k \in DOMAIN data \cap InternalNames :
        data[k] \in {"<set>", "<instance>", "<dict with self>", "<auth>"}

----------------------------------------------------------------------------
(* The operations of the entity core, as functions of the heap.  Each      *)
(* gives the heap it leaves and the outcome of the call.                   *)

\* a resource path holds one response and no continuation
OneResponse(response) == LinkPages(<<response>>)

Result(h, out) == [heap |-> h, out |-> out]

\* the instance counts as fetched whatever the call gave
FetchMergeMarkingFetched(at, i, out) ==
    Result([at.heap EXCEPT ![i] = Some([@[1] EXCEPT !.fetched = TRUE])], out)

\* Model.__fetch, after _current_path gave at and _rest_call gave out: a
\* truthy body is merged into the store and the instance is fetched
FetchMerge(at, i, out) ==
    IF out.err # "" \/ Falsy(out.data) THEN Result(at.heap, out)
    ELSE Result([at.heap EXCEPT ![i] = Some(
                    [@[1] EXCEPT
                        !.attrs = MoveOverlaps(at.heap[i][1].cls, out.data[1]) @@ @,
                        !.fetched = TRUE])],
                out)

\* Model.__fetch, after _current_path gave at
FetchAt(at, i, response) ==
    IF at.err # "" THEN Result(at.heap, Raised(at.err, 0, <<>>))
    ELSE FetchMerge(at, i,
            RestCall(OneResponse(response), at.path, "GET", TRUE,
                     Kw(InstAuth(at.heap[i][1]), None, ClsAuth(at.heap[i][1].cls))))

\* Model.__fetch
Fetch(h, i, response) == FetchAt(CurrentPath(h, i), i, response)

\* the requests of an inner call, after the requests issued before it
PrependReqs(reqs, r) == [r EXCEPT !.out.reqs = reqs \o @]

\* what the server answers to the successive fetches of one attribute
\* access: empties successes with an empty body, then the response final
Answers(empties, final) ==
    [d \in 1..MaxDepth |->
        IF d <= empties THEN [status |-> 200, body |-> None] ELSE final]

\* Model.__getattr__(name), entered for the d-th time in one access: the
\* lookup missed.  getattr(self, name) after the fetch looks up again and,
\* on a miss, enters __getattr__ again.
RECURSIVE GetAttrMiss(_, _, _, _, _)

\* getattr(self, name) after the fetch f: the lookup again and, on a miss,
\* __getattr__ again
GetAttrAgain(f, i, name, answers, d) ==
    IF f.out.err # "" THEN f
    ELSE IF name \in DOMAIN f.heap[i][1].attrs
    THEN Result(f.heap, Returned(Some(f.heap[i][1].attrs[name]), None, f.out.reqs))
    ELSE PrependReqs(f.out.reqs, GetAttrMiss(f.heap, i, name, answers, d + 1))

GetAttrMiss(h, i, name, answers, d) ==
    IF h[i][1].fetched THEN Result(h, Raised("AttributeError", 0, <<>>))
    ELSE IF d > MaxDepth THEN Result(h, Raised("RuntimeError", 0, <<>>))
    ELSE GetAttrAgain(Fetch(h, i, answers[d]), i, name, answers, d)

\* instance.name: the normal lookup, and __getattr__ when it misses
GetAttr(h, i, name, answers) ==
    IF name \in DOMAIN h[i][1].attrs
    THEN Result(h, Returned(Some(h[i][1].attrs[name]), None, <<>>))
    ELSE GetAttrMiss(h, i, name, answers, 1)

\* Model.__setattr__(key, value): a field goes to the store, _auth to the
\* instance's credential
SetAttr(h, i, key, value) ==
    LET o == h[i][1]
    IN  Result([h EXCEPT ![i] = Some(
                    [o EXCEPT !.changed = IF StartsWithUnderscore(key)
                                          THEN @ ELSE @ \cup {key},
                              !.attrs = IF key = "_auth" THEN @
                                        ELSE (key :> value) @@ @,
                              !.auth = IF key = "_auth" THEN value ELSE @])],
               NoOut)

\* Model.read(*args, parent=..., auth=...): argAuth is the auth keyword
\* ("none": not passed, cls._auth is used).  The new instance goes to i.
ReadLeavesKeysUnbound(t, args) == None

ReadPkVals(t, args) == Some(args)

ReadInstance(t, parent, args, auth, data) ==
    [Construct(t, parent, data) EXCEPT
        !.pkvals = ReadPkVals(t, args), !.fetched = TRUE, !.auth = auth]

\* read after _rest_call gave out
ReadResult(up, i, t, args, parent, auth, out) ==
    IF out.err # "" THEN Result(up.heap, out)
    ELSE IF Falsy(out.data) THEN Result(up.heap, [out EXCEPT !.data = None])
    ELSE Result([up.heap EXCEPT ![i] = Some(
                    ReadInstance(t, parent, args, auth, out.data[1]))],
                [out EXCEPT !.data = Some(i)])

\* read after the parent's path gave up
ReadAt(up, i, t, args, parent, auth, response) ==
    IF up.err # "" THEN Result(up.heap, Raised(up.err, 0, <<>>))
    ELSE ReadResult(up, i, t, args, parent, auth,
            RestCall(OneResponse(response),
                     up.path \o Format(PathTemplate(t), Zip(Pk(t), args)),
                     "GET", TRUE, Kw(auth, None, ClsAuth(t))))

Read(h, i, t, args, parent, argAuth, response) ==
    ReadAt(IF parent = "" THEN NoPath(h) ELSE OrDefault(CurrentPath(h, parent)),
           i, t, args, parent,
           IF argAuth # "none" THEN argAuth ELSE ClsAuth(t), response)

\* del instance.item takes the entry out of the store when it is there
DelAttrRemoving(h, i, item) ==
    IF item \in DOMAIN h[i][1].attrs
    THEN Result([h EXCEPT ![i] = Some(
                    [@[1] EXCEPT !.attrs = [k \in DOMAIN @ \ {item} |-> @[k]]])],
                NoOut)
    ELSE Result(h, Raised("AttributeError", 0, <<>>))

\* Model.__delattr__(item)
DelAttr(h, i, item) == Result(h, Raised("InvalidOperation", 0, <<>>))

----------------------------------------------------------------------------
(* McashModel (pyresto/mcash.py).  The fields live in the data holder,     *)
(* which attrs stands for; a form field that was never given a value reads *)
(* None, and save drops None from the payload, so a field absent from      *)
(* attrs stands for a field that is None.                                  *)

\* McashModel.__setattr__(key, value) for a form field: the field is
\* marked changed, stored in the data holder, and the form is rebuilt
McashSetAttr(h, i, key, value) ==
    Result([h EXCEPT ![i] = Some(
                [@[1] EXCEPT !.changed = @ \cup {key},
                             !.attrs = (key :> value) @@ @])],
           NoOut)

\* the own list path formatted with the own footprint goes after up.path
OwnListPart(up, i) ==
    [err |-> "",
     path |-> up.path \o Format(ListPath(up.heap[i][1].cls),
                               Footprint(up.heap[i][1])),
     heap |-> [up.heap EXCEPT ![i] = Some(StoreFootprint(@[1]))]]

\* McashModel._current_list_path: the parent's list path, then the own
\* _list_path formatted with the own footprint.  Reading it stores
\* footprints along the chain.
RECURSIVE CurrentListPath(_, _)
CurrentListPath(h, i) ==
    OwnListPart(IF h[i][1].parent = "" THEN NoPath(h)
                ELSE CurrentListPath(h, h[i][1].parent),
                i)

\* save sends POST: the create method is POST and no primary-key field
\* of the data holder has a truthy value
SavePosts(o) ==
    /\ CreateMethod(o.cls) = "POST"
    /\ \A j \in 1..Len(Pk(o.cls)) : Pk(o.cls)[j] \notin DOMAIN o.attrs

\* the payload of save: the data holder without the fields that are None
\* and without the excluded ones
SavePayload(o) ==
    [k \in DOMAIN o.attrs \ ExcludeFromSave(o.cls) |-> o.attrs[k]]

\* the primary-key values save binds: getattr(self, key) for each key
SavedPkVals(t, data) ==
    [j \in 1..Len(Pk(t)) |->
        IF Pk(t)[j] \in DOMAIN data THEN Some(data[Pk(t)[j]]) ELSE None]

\* the instance after save got resp: the response is merged into the data
\* holder, the primary-key values are bound, the changed set is cleared
Saved(o, resp) ==
    [o EXCEPT !.attrs = Update(@, resp),
              !.pkvals = Some(SavedPkVals(o.cls, Update(o.attrs, resp))),
              !.changed = {}]

\* save after _do_post or _do_put gave out
SaveResult(at, i, out) ==
    IF out.err # "" THEN Result(at.heap, out)
    ELSE IF IsNone(out.data)
    THEN Result(at.heap, Raised("TypeError", 0, out.reqs))      \* update(None)
    ELSE Result([at.heap EXCEPT ![i] = Some(Saved(@[1], out.data[1]))],
                [out EXCEPT !.data = Some(i)])

\* _do_post and _do_put after the path gave at; o0 is the instance as the
\* call found it
SaveAt(at, o0, i, response) ==
    SaveResult(at, i,
        RestCall(OneResponse(response), at.path,
                 IF SavePosts(o0) THEN "POST" ELSE "PUT", TRUE,
                 Kw(InstAuth(o0), Some(SavePayload(o0)), ClsAuth(o0.cls))))

\* McashModel.save()
Save(h, i, response) ==
    SaveAt(IF SavePosts(h[i][1]) THEN CurrentListPath(h, i)
           ELSE CurrentPath(h, i),
           h[i][1], i, response)

\* McashModel.delete(): self.__class__.delete is this method again, so the
\* call re-enters itself until the interpreter gives up
McashDelete(h, i) == Result(h, Raised("RuntimeError", 0, <<>>))

\* normalize_auth: the credential an update or delete call runs with
NormalizeAuth(o, argAuth) ==
    IF argAuth # "none" THEN argAuth
    ELSE IF ClsAuth(o.cls) # "none" THEN ClsAuth(o.cls)
    ELSE InstAuth(o)

\* the keys update_with_patch sends: keys is None or a set
PatchKeys(o, keys) ==
    IF ~IsNone(keys) /\ keys[1] # {} THEN keys[1] \cap o.changed ELSE o.changed

\* the merge of a response also resets the fetched flag
MergedResettingFetched(o, resp, sent) ==
    [o EXCEPT !.attrs = Update(@, resp), !.changed = @ \ sent,
              !.fetched = FALSE]

\* instance.__dict__.update(resp) and the bookkeeping after a request
Merged(o, resp, sent) ==
    [o EXCEPT !.attrs = Update(@, resp), !.changed = @ \ sent]

\* an update after _rest_call gave out: instance.__dict__.update(resp),
\* then the sent keys leave the changed set
UpdateResult(at, i, sent, out) ==
    IF out.err # "" THEN Result(at.heap, out)
    ELSE IF IsNone(out.data)
    THEN Result(at.heap, Raised("TypeError", 0, out.reqs))      \* update(None)
    ELSE Result([at.heap EXCEPT ![i] = Some(Merged(@[1], out.data[1], sent))],
                [out EXCEPT !.data = Some(i)])

\* update_with_patch after _current_path gave at; o0 is the instance as the
\* call found it
PatchAt(at, o0, i, sent, auth, response) ==
    IF at.err # "" THEN Result(at.heap, Raised(at.err, 0, <<>>))
    ELSE UpdateResult(at, i, sent,
            RestCall(OneResponse(response), at.path, "PATCH", TRUE,
                     Kw(auth, Some([k \in sent |-> o0.attrs[k]]), ClsAuth(o0.cls))))

\* Model.update_with_patch(instance, keys, auth)
UpdateWithPatch(h, i, keys, argAuth, response) ==
    PatchAt(CurrentPath(h, i), h[i][1], i, PatchKeys(h[i][1], keys),
            NormalizeAuth(h[i][1], argAuth), response)

\* the payload of update_with_put: instance.__dict__.copy()
PutPayload(o) == InstDict(o)

\* update_with_put after _current_path gave at
PutAt(at, o0, i, auth, response) ==
    IF at.err # "" THEN Result(at.heap, Raised(at.err, 0, <<>>))
    ELSE IF UsesJsonDumps(o0.cls) /\ JsonDumpsFails(PutPayload(o0))
    THEN Result(at.heap, Raised("TypeError", 0, <<>>))           \* json.dumps
    ELSE UpdateResult(at, i, o0.changed,
            RestCall(OneResponse(response), at.path, "PUT", TRUE,
                     Kw(auth, Some(PutPayload(o0)), ClsAuth(o0.cls))))

\* Model.update_with_put(instance, auth)
UpdateWithPut(h, i, argAuth, response) ==
    PutAt(CurrentPath(h, i), h[i][1], i, NormalizeAuth(h[i][1], argAuth),
          response)

\* delete needs a body in the response
DeleteResultNeedingBody(at, out) ==
    IF out.err # "" THEN Result(at.heap, out)
    ELSE IF IsNone(out.data) THEN Result(at.heap, Raised("TypeError", 0, out.reqs))
    ELSE Result(at.heap, [out EXCEPT !.data = Some("True")])

\* delete after _rest_call gave out
DeleteResult(at, out) ==
    IF out.err # "" THEN Result(at.heap, out)
    ELSE Result(at.heap, [out EXCEPT !.data = Some("True")])

\* delete after _current_path gave at
DeleteAt(at, o0, auth, response) ==
    IF at.err # "" THEN Result(at.heap, Raised(at.err, 0, <<>>))
    ELSE DeleteResult(at,
            RestCall(OneResponse(response), at.path, "DELETE", TRUE,
                     Kw(auth, None, ClsAuth(o0.cls))))

\* Model.delete(instance, auth)
Delete(h, i, argAuth, response) ==
    DeleteAt(CurrentPath(h, i), h[i][1], NormalizeAuth(h[i][1], argAuth),
             response)

----------------------------------------------------------------------------
(* The relation descriptors (pyresto/relations.py).  Shop declares          *)
(*     items = Many(Item, path)              an eager collection            *)
(*     feed  = Many(Item, path, lazy=True)   a lazy collection              *)
(*     note  = Foreign(Note, embedded=True)  a sub-document of the shop     *)
(*     ref   = Foreign(Note, key_property='note_id')   a referenced note    *)
(*     tix   = Foreign(Ticket, key_property='note_id') a referenced ticket  *)
(* Ticket derives from McashModel; its Form has string fields without      *)
(* validators, as the forms of tests/test_mcash.py, so it always validates. *)

ManyNames == {"items", "feed"}
ForeignNames == {"note", "ref", "tix"}

\* Many.__model, Foreign.__model
RelModel(rel) ==
    IF rel \in ManyNames THEN "Item" ELSE IF rel = "tix" THEN "Ticket" ELSE "Note"

\* Many.__path
RelPath(rel) == <<Lit("shops"), Ph("id"), Lit(rel)>>

\* Many.__lazy
Lazy(rel) == rel = "feed"

\* Foreign.__embedded
Embedded(rel) == rel = "note"

\* Foreign.__key_property: the one given, else '__' + model.__name__.lower()
KeyProperty(rel) == IF rel \in {"ref", "tix"} THEN "note_id" ELSE "__note"

\* the caches are dicts keyed by the owner: Model keeps the identity hash
\* next to __eq__, so an owner is found by identity
CacheKey(rel, i) == <<rel, i>>

\* a cached object: a collection object (by its index) or an instance
ListRef(n) == [kind |-> "list", ref |-> ToString(n)]
InstRef(j) == [kind |-> "instance", ref |-> j]
StoredRef(rel) == [kind |-> "stored", ref |-> rel]
NoneRef == [kind |-> "none", ref |-> ""]

RelResult(h, c, w, out) ==
    [heap |-> h, cache |-> c, wrappers |-> w, out |-> out]

\* an element of a collection: a raw entry ("dict", its fields in obj), an
\* instance of the target model ("instance") or anything else ("other")
Entry(kind, id, obj) == [kind |-> kind, id |-> id, obj |-> obj]

\* Many.__sanitize_data, without a preprocessor
SanitizeData(data) == IF IsNone(data) \/ Len(data[1]) = 0 THEN <<>> ELSE data[1]

\* WrappedList(iterable, wrapper) and LazyList(wrapper, fetcher): the mapper
\* is bound to the owner, the fetcher to the url
WrappedList(items, owner) ==
    [kind |-> "WrappedList", items |-> items, owner |-> owner, url |-> <<>>]
LazyList(owner, url) ==
    [kind |-> "LazyList", items |-> <<>>, owner |-> owner, url |-> url]

\* instance in cache
Cached(c, rel, i) == CacheKey(rel, i) \in DOMAIN c

\* Many.__get__ in eager mode, after _rest_call gave out
ManyMade(fp, c, w, i, rel, out) ==
    IF out.err # "" THEN RelResult(fp.heap, c, w, out)
    ELSE RelResult(fp.heap, (CacheKey(rel, i) :> ListRef(Len(w) + 1)) @@ c,
                   Append(w, WrappedList(SanitizeData(out.data), i)),
                   [out EXCEPT !.data = Some(ListRef(Len(w) + 1))])

\* Many.__get__ on a cache miss, after instance._footprint gave fp
ManyResolve(fp, c, w, i, rel, server) ==
    IF fp.err # "" THEN RelResult(fp.heap, c, w, Raised(fp.err, 0, <<>>))
    ELSE IF Lazy(rel)
    THEN RelResult(fp.heap, (CacheKey(rel, i) :> ListRef(Len(w) + 1)) @@ c,
                   Append(w, LazyList(i, Format(RelPath(rel), fp.fp))),
                   Returned(Some(ListRef(Len(w) + 1)), None, <<>>))
    ELSE ManyMade(fp, c, w, i, rel,
            RestCall(server, Format(RelPath(rel), fp.fp), "GET", TRUE,
                     Kw(InstAuth(fp.heap[i][1]), None, ClsAuth(RelModel(rel)))))

\* Many.__get__(instance, owner) with an instance
ManyGet(h, c, w, i, rel, server) ==
    IF Cached(c, rel, i)
    THEN RelResult(h, c, w, Returned(Some(c[CacheKey(rel, i)]), None, <<>>))
    ELSE ManyResolve(ReadFootprint(h, i), c, w, i, rel, server)

\* Foreign.__get__ in embedded mode, after getattr(instance, key_property)
\* gave g: the target is built from the sub-document, takes the owner's
\* credential and the owner, and is cached
EmbeddedTarget(g, c, w, i, rel, j) ==
    IF g.out.err # "" THEN RelResult(g.heap, c, w, g.out)
    ELSE RelResult(
            [g.heap EXCEPT ![j] = Some(
                [Construct(RelModel(rel), "", g.out.data[1]) EXCEPT
                    !.auth = InstAuth(g.heap[i][1]), !.owner = i])],
            (CacheKey(rel, i) :> InstRef(j)) @@ c, w,
            [g.out EXCEPT !.data = Some(InstRef(j))])

\* the key extractor of a referenced relation, after instance._footprint
\* gave fp: no leading key of the target (its _pk has one field), then
\* getattr(instance, key_property)
KeyExtracted(fp, i, rel, answers) ==
    IF fp.err # "" THEN Result(fp.heap, Raised(fp.err, 0, <<>>))
    ELSE GetAttr(fp.heap, i, KeyProperty(rel), answers)

\* Foreign.__get__ in referenced mode, after model.get gave rd: what get
\* returned is cached, None as well, and then given the owner, which None
\* does not take
ReferencedMade(rd, c, w, i, rel, j) ==
    IF rd.out.err # "" THEN RelResult(rd.heap, c, w, rd.out)
    ELSE IF IsNone(rd.out.data)
    THEN RelResult(rd.heap, (CacheKey(rel, i) :> NoneRef) @@ c, w,
                   Raised("AttributeError", 0, rd.out.reqs))
    ELSE RelResult([rd.heap EXCEPT ![j] = Some([@[1] EXCEPT !.owner = i])],
                   (CacheKey(rel, i) :> InstRef(j)) @@ c, w,
                   [rd.out EXCEPT !.data = Some(InstRef(j))])

\* Foreign.__get__ in referenced mode, after the key extractor gave g:
\* model.get(key, auth=instance._auth), the read answered with response
ReferencedTarget(g, c, w, i, rel, j, response) ==
    IF g.out.err # "" THEN RelResult(g.heap, c, w, g.out)
    ELSE ReferencedMade(
            PrependReqs(g.out.reqs,
                ReadAt(NoPath(g.heap), j, RelModel(rel), <<g.out.data>>, "",
                       InstAuth(g.heap[i][1]), response)),
            c, w, i, rel, j)

\* Foreign.__get__(instance, owner) with an instance; the target goes to j.
\* In referenced mode self.__model.get is looked up before its arguments
\* (the key extractor, instance._auth) are computed, and a type that does
\* not derive from McashModel has no get.
ForeignGet(h, c, w, i, rel, j, answers, response) ==
    IF Cached(c, rel, i)
    THEN RelResult(h, c, w, Returned(Some(c[CacheKey(rel, i)]), None, <<>>))
    ELSE IF Embedded(rel)
    THEN EmbeddedTarget(GetAttr(h, i, KeyProperty(rel), answers), c, w, i, rel, j)
    ELSE IF ~HasGet(RelModel(rel))
    THEN RelResult(h, c, w, Raised("AttributeError", 0, <<>>))
    ELSE ReferencedTarget(KeyExtracted(ReadFootprint(h, i), i, rel, answers),
                          c, w, i, rel, j, response)

\* instance.rel for a relation name: Relation defines __get__ only, so a
\* value that instance.__dict__ holds under the name comes first
GetRelation(h, c, w, i, rel, j, server, answers, response) ==
    IF rel \in DOMAIN h[i][1].attrs
    THEN RelResult(h, c, w, Returned(Some(StoredRef(rel)), None, <<>>))
    ELSE IF rel \in ManyNames THEN ManyGet(h, c, w, i, rel, server)
    ELSE ForeignGet(h, c, w, i, rel, j, answers, response)

----------------------------------------------------------------------------
(* The entity core as a state machine: instances are created by the        *)
(* constructor or by read, then read from, assigned to, updated, deleted.  *)

\* the fields the server and the application know of each type
FieldNames(t) == IF t = "Shop" THEN {"id"} ELSE {"id", "name"}

\* what a shop is made of: nothing, its id, or its id with a note as a
\* sub-document and the id of a note
ShopDicts(v) ==
    {<<>>, [id |-> v], [id |-> v, note |-> [id |-> "b"], note_id |-> "b"]}

\* dicts over some of the fields, every field with the value v
Dicts(t, v) ==
    IF t = "Shop" THEN ShopDicts(v)
    ELSE UNION {[S -> {v}] : S \in SUBSET FieldNames(t)}

\* what the application writes: constructor arguments and assigned values
LocalValue == "a"

\* the bodies the server sends for a resource: {}, and dicts over some of
\* the fields, with the id "a" and every other field "b"
ServerDicts(t) ==
    IF t = "Shop" THEN ShopDicts("a") \cup {[id |-> "a", items |-> <<"a">>]}
    ELSE {[k \in S |-> IF k = "id" THEN "a" ELSE "b"] :
             S \in SUBSET FieldNames(t)}

\* responses to a request on a resource path: each body with 200, and each
\* status with an empty body
Responses(t) ==
    {[status |-> 200, body |-> Some(d)] : d \in ServerDicts(t)}
    \cup {[status |-> st, body |-> None] :
             st \in IF t = "Shop" THEN {200, 404} ELSE Statuses}

\* the primary keys read is called with: one value for a leading key field
\* and two for the last
ReadArgs(t) ==
    {[j \in 1..Len(Pk(t)) |-> IF j < Len(Pk(t)) THEN Some("s") ELSE Some(v)] :
        v \in {"a", "b"}}

\* the keys argument of update_with_patch: not given, the empty set, or
\* one field (for a shop: not given)
PatchKeySets(t) ==
    IF t = "Shop" THEN {None}
    ELSE {None, Some({})} \cup {Some({k}) : k \in FieldNames(t)}

\* the responses the requests of a call consumed, in order
Consumed(answers, out) == SubSeq(answers, 1, Len(out.reqs))

\* the type of the instance a slot holds, and the parents it may be given
SlotTypes(i) == IF i = "x" THEN {"Shop"} ELSE {"Item", "Note"}
SlotParents(i) == IF i = "x" THEN {""} ELSE {"", "x"}

Exists(i) == ~IsNone(heap[i])

Init ==
    /\ heap = [i \in Insts |-> None]
    /\ cache = <<>>
    /\ wrappers = <<>>
    /\ last = Done("init", "", "", <<>>, NoOut, None, <<>>)

\* cls(parent=..., **kwargs)
DoConstruct(i) ==
    /\ ~Exists(i)
    /\ \E t \in SlotTypes(i), parent \in SlotParents(i) : \E kwargs \in Dicts(t, LocalValue) :
        /\ parent # "" => Exists(parent)
        /\ heap' = [heap EXCEPT ![i] = Some(Construct(t, parent, kwargs))]
        /\ last' = Done("construct", i, "", kwargs, NoOut, None, <<>>)
    /\ UNCHANGED <<cache, wrappers>>

\* cls.read(*args, parent=...)
DoRead(i) ==
    /\ ~Exists(i)
    /\ \E t \in SlotTypes(i), parent \in SlotParents(i) :
       \E args \in ReadArgs(t), response \in Responses(t) :
        /\ parent # "" => Exists(parent)
        /\ \E r \in {Read(heap, i, t, args, parent, "none", response)} :
               /\ heap' = r.heap
               /\ last' = Done("read", i, t, [args |-> args, parent |-> parent],
                               r.out, IF parent = "" THEN None ELSE heap[parent],
                               Consumed(<<response>>, r.out))
    /\ UNCHANGED <<cache, wrappers>>

\* instance.name, when the lookup needs no fetch: the attribute is in the
\* store, or it is not and the instance is fetched
DoGetAttr(i) ==
    /\ Exists(i)
    /\ \E name \in FieldNames(heap[i][1].cls) \cup {"zip"} :
        /\ name \in DOMAIN heap[i][1].attrs \/ heap[i][1].fetched
        /\ \E r \in {GetAttr(heap, i, name, <<>>)} :
               /\ heap' = r.heap
               /\ last' = Done("getattr", i, name, <<>>, r.out, heap[i], <<>>)
    /\ UNCHANGED <<cache, wrappers>>

\* instance.name, when the lookup misses on an unfetched instance
DoGetAttrFetching(i) ==
    /\ Exists(i)
    /\ \E name \in FieldNames(heap[i][1].cls) \cup {"zip"},
          empties \in 0..MaxDepth, final \in Responses(heap[i][1].cls) :
        /\ name \notin DOMAIN heap[i][1].attrs /\ ~heap[i][1].fetched
        /\ empties = MaxDepth => final = [status |-> 200, body |-> None]
        /\ \E r \in {GetAttr(heap, i, name, Answers(empties, final))} :
               /\ heap' = r.heap
               /\ last' = Done("getattr", i, name, <<>>, r.out, heap[i],
                               Consumed(Answers(empties, final), r.out))
    /\ UNCHANGED <<cache, wrappers>>

\* instance.key = value, for a field and for the reserved name _auth
DoSetAttr(i) ==
    /\ Exists(i)
    /\ \E key \in FieldNames(heap[i][1].cls) \cup {"_auth"} :
        \E r \in {SetAttr(heap, i, key,
                          IF key = "_auth" THEN "instCred" ELSE LocalValue)} :
            /\ heap' = r.heap
            /\ last' = Done("setattr", i, key, LocalValue, r.out, heap[i], <<>>)
    /\ UNCHANGED <<cache, wrappers>>

\* cls.update_with_patch(instance, keys)
DoUpdateWithPatch(i) ==
    /\ Exists(i)
    /\ \E keys \in PatchKeySets(heap[i][1].cls),
          response \in Responses(heap[i][1].cls) :
        \E r \in {UpdateWithPatch(heap, i, keys, "none", response)} :
            /\ heap' = r.heap
            /\ last' = Done("patch", i, "", keys, r.out, heap[i],
                            Consumed(<<response>>, r.out))
    /\ UNCHANGED <<cache, wrappers>>

\* cls.update_with_put(instance)
DoUpdateWithPut(i) ==
    /\ Exists(i)
    /\ \E response \in Responses(heap[i][1].cls) :
        \E r \in {UpdateWithPut(heap, i, "none", response)} :
            /\ heap' = r.heap
            /\ last' = Done("put", i, "", <<>>, r.out, heap[i],
                            Consumed(<<response>>, r.out))
    /\ UNCHANGED <<cache, wrappers>>

\* cls.delete(instance)
DoDelete(i) ==
    /\ Exists(i)
    /\ \E response \in Responses(heap[i][1].cls) :
        \E r \in {Delete(heap, i, "none", response)} :
            /\ heap' = r.heap
            /\ last' = Done("delete", i, "", <<>>, r.out, heap[i],
                            Consumed(<<response>>, r.out))
    /\ UNCHANGED <<cache, wrappers>>

\* one instance without a parent, through every operation of the core
Next ==
    \/ DoConstruct("y")
    \/ DoRead("y")
    \/ DoGetAttr("y")
    \/ DoGetAttrFetching("y")
    \/ DoSetAttr("y")
    \/ DoUpdateWithPatch("y")
    \/ DoUpdateWithPut("y")
    \/ DoDelete("y")

Spec == Init /\ [][Next]_vars

\* a parent and a child: the child is created under the parent, and its
\* path is used by delete
NextTree ==
    \/ DoConstruct("x")
    \/ DoRead("x")
    \/ DoConstruct("y")
    \/ DoRead("y")
    \/ DoDelete("y")

SpecTree == Init /\ [][NextTree]_vars

\* the pages of a collection: entries, or a failure; and the collections
\* the server holds, among them one whose only page has an empty body
RelPages == {[status |-> 200, body |-> Some(<<Entry("dict", 0, [id |-> "a"])>>)],
             [status |-> 404, body |-> None]}
RelChains ==
    UNION {[1..n -> RelPages] : n \in 1..MaxRelPages}
    \cup {<<[status |-> 200, body |-> None]>>}

\* the access will issue no request: the relation is cached for the owner,
\* or the owner's store holds a value under its name
Resolved(i, rel) == Cached(cache, rel, i) \/ rel \in DOMAIN heap[i][1].attrs

\* instance.rel for a Many relation, the server holding one of chains
DoGetManyOf(i, rel, chains) ==
    /\ Exists(i) /\ rel \in RelationNames(heap[i][1].cls) \cap ManyNames
    /\ \E pages \in IF Resolved(i, rel) THEN {<<>>} ELSE chains :
        \E r \in {GetRelation(heap, cache, wrappers, i, rel, "",
                               LinkPages(pages), <<>>, <<>>)} :
            /\ heap' = r.heap
            /\ cache' = r.cache
            /\ wrappers' = r.wrappers
            /\ last' = Done("relation", i, rel,
                            [cached |-> Cached(cache, rel, i),
                             held |-> IF Cached(cache, rel, i)
                                      THEN Some(cache[CacheKey(rel, i)])
                                      ELSE None],
                            r.out, heap[i], Consumed(pages, r.out))

\* instance.rel for a Many relation
DoGetMany(i, rel) == DoGetManyOf(i, rel, RelChains)

\* the responses the requests of a Foreign access consumed, in order: the
\* fetches of the owner and then, if it was reached, the read of the target
Served(answers, response, out) ==
    IF out.reqs # <<>> /\ out.reqs[Len(out.reqs)].url[2] = "tickets"
    THEN SubSeq(answers, 1, Len(out.reqs) - 1) \o <<response>>
    ELSE SubSeq(answers, 1, Len(out.reqs))

\* the access reads the target from the server
ReadsTarget(i, rel) ==
    ~Resolved(i, rel) /\ ~Embedded(rel) /\ HasGet(RelModel(rel))

\* instance.rel for a Foreign relation; a new target goes to the slot "y"
DoGetForeign(i, rel) ==
    /\ Exists(i) /\ i # "y"
    /\ rel \in RelationNames(heap[i][1].cls) \cap ForeignNames
    /\ \E final \in IF Resolved(i, rel) \/ ~(Embedded(rel) \/ HasGet(RelModel(rel)))
                     THEN {[status |-> 404, body |-> None]}
                     ELSE Responses(heap[i][1].cls),
          response \in IF ReadsTarget(i, rel) THEN Responses(RelModel(rel))
                        ELSE {[status |-> 404, body |-> None]} :
        \E r \in {GetRelation(heap, cache, wrappers, i, rel, "y", <<>>,
                               Answers(0, final), response)} :
            /\ heap' = r.heap
            /\ cache' = r.cache
            /\ wrappers' = r.wrappers
            /\ last' = Done("relation", i, rel,
                            [cached |-> Cached(cache, rel, i),
                             held |-> IF Cached(cache, rel, i)
                                      THEN Some(cache[CacheKey(rel, i)])
                                      ELSE None],
                            r.out, heap[i],
                            Served(Answers(0, final), response, r.out))

\* a shop, through every operation of the core and through its relations
NextRel ==
    \/ DoConstruct("x")
    \/ DoRead("x")
    \/ DoGetAttr("x")
    \/ DoGetAttrFetching("x")
    \/ DoSetAttr("x")
    \/ DoUpdateWithPatch("x")
    \/ DoUpdateWithPut("x")
    \/ DoDelete("x")
    \/ DoGetMany("x", "items")
    \/ DoGetForeign("x", "note")
    \/ DoGetForeign("x", "ref")

SpecRel == Init /\ [][NextRel]_vars

\* del instance.item, for the fields, a name that is no field and two
\* reserved names
DoDelAttr(i) ==
    /\ Exists(i)
    /\ \E item \in FieldNames(heap[i][1].cls) \cup {"zip", "_auth", "_changed"} :
        \E r \in {DelAttr(heap, i, item)} :
            /\ heap' = r.heap
            /\ last' = Done("delattr", i, item, <<>>, r.out, heap[i], <<>>)
    /\ UNCHANGED <<cache, wrappers>>

\* one instance that is made, read, fetched and assigned to, and whose
\* attributes are deleted
NextDel ==
    \/ DoConstruct("y")
    \/ DoRead("y")
    \/ DoGetAttrFetching("y")
    \/ DoSetAttr("y")
    \/ DoDelAttr("y")

SpecDel == Init /\ [][NextDel]_vars

\* cls(parent=..., **kwargs) for a type derived from McashModel; "y" may be
\* given the parent "x"
DoConstructMcash(i) ==
    /\ ~Exists(i)
    /\ \E t \in {"Ticket", "Pos"}, parent \in SlotParents(i) :
       \E kwargs \in Dicts(t, LocalValue) :
        /\ parent # "" => Exists(parent)
        /\ heap' = [heap EXCEPT ![i] = Some(Construct(t, parent, kwargs))]
        /\ last' = Done("construct", i, "", kwargs, NoOut, None, <<>>)
    /\ UNCHANGED <<cache, wrappers>>

\* instance.key = value for a form field of a McashModel
DoSetAttrMcash(i) ==
    /\ Exists(i)
    /\ \E key \in FieldNames(heap[i][1].cls) :
        \E r \in {McashSetAttr(heap, i, key, LocalValue)} :
            /\ heap' = r.heap
            /\ last' = Done("setattr", i, key, LocalValue, r.out, heap[i], <<>>)
    /\ UNCHANGED <<cache, wrappers>>

\* instance.save()
DoSave(i) ==
    /\ Exists(i)
    /\ \E response \in Responses(heap[i][1].cls) :
        \E r \in {Save(heap, i, response)} :
            /\ heap' = r.heap
            /\ last' = Done("save", i, "", <<>>, r.out, heap[i],
                            Consumed(<<response>>, r.out))
    /\ UNCHANGED <<cache, wrappers>>

\* instance.delete() on a McashModel
DoDeleteMcash(i) ==
    /\ Exists(i)
    /\ \E r \in {McashDelete(heap, i)} :
        /\ heap' = r.heap
        /\ last' = Done("delete", i, "", <<>>, r.out, heap[i], <<>>)
    /\ UNCHANGED <<cache, wrappers>>

\* a ticket or a pos "y", on its own or under a parent "x": it is made,
\* assigned to, saved and deleted
NextSave ==
    \/ DoConstructMcash("x")
    \/ DoConstructMcash("y")
    \/ DoSetAttrMcash("y")
    \/ DoSave("y")
    \/ DoDeleteMcash("y")

SpecSave == Init /\ [][NextSave]_vars

\* cls.update_with_patch(instance), cls.update_with_put(instance) and
\* cls.delete(instance), called without auth= or with auth=argCred
DoWithAuth(i, op) ==
    /\ Exists(i)
    /\ \E argAuth \in {"none", "argCred"}, response \in Responses(heap[i][1].cls) :
        \E r \in {CASE op = "patch" -> UpdateWithPatch(heap, i, None, argAuth, response)
                    [] op = "put" -> UpdateWithPut(heap, i, argAuth, response)
                    [] OTHER -> Delete(heap, i, argAuth, response)} :
            /\ heap' = r.heap
            /\ last' = Done(op, i, argAuth, <<>>, r.out, heap[i],
                            Consumed(<<response>>, r.out))
    /\ UNCHANGED <<cache, wrappers>>

\* one instance, with or without a credential of its own, of a type with
\* or without a default credential, updated and deleted
NextAuth ==
    \/ DoConstruct("y")
    \/ DoRead("y")
    \/ DoSetAttr("y")
    \/ DoWithAuth("y", "patch")
    \/ DoWithAuth("y", "put")
    \/ DoWithAuth("y", "delete")

SpecAuth == Init /\ [][NextAuth]_vars

\* a shop, its referenced relations and its eager collection: the shop is
\* made, assigned to and read from, and its note, its ticket and its items
\* are asked for again and again
NextForeign ==
    \/ DoConstruct("x")
    \/ DoRead("x")
    \/ DoGetAttrFetching("x")
    \/ DoSetAttr("x")
    \/ DoGetForeign("x", "ref")
    \/ DoGetForeign("x", "tix")
    \/ DoGetMany("x", "items")

SpecForeign == Init /\ [][NextForeign]_vars

----------------------------------------------------------------------------
(* Properties of the entity core.  They read the last operation: the       *)
(* instance before it (Pre), the instance after it (Post), the requests it *)
(* issued and the responses they got.                                       *)

Pre == last.pre[1]
Post == heap[last.inst][1]

\* the path of an instance without a parent, from its state
OwnPath(o) == Format(PathTemplate(o.cls), Footprint(o))

\* every response the operation got has a success status, and there is one
AnsweredWithSuccess ==
    /\ Len(last.server) >= 1
    /\ \A k \in 1..Len(last.server) : Is2xx(last.server[k].status)

\* the operation issued one request, with this method, at this path
OneRequest(method, path) ==
    /\ Len(last.out.reqs) = 1
    /\ last.out.reqs[1].method = method
    /\ last.out.reqs[1].url = <<"base">> \o path

\* C1: an access to an absent attribute of an unfetched instance issues
\* exactly one GET at the instance's current path, whatever success response
\* the server gives; after it fetched is true, and the attribute is returned
\* if the response held it and the access fails with AttributeError if not.
FetchOnceThenTerminalMiss ==
    (/\ last.op = "getattr"
     /\ ~Pre.fetched /\ last.name \notin DOMAIN Pre.attrs
     /\ HasId(Pre) /\ Pre.parent = ""
     /\ AnsweredWithSuccess)
    => /\ OneRequest("GET", OwnPath(Pre))
       /\ Post.fetched
       /\ IF last.name \in DOMAIN Post.attrs
          THEN last.out.err = "" /\ last.out.data = Some(Post.attrs[last.name])
          ELSE last.out.err = "AttributeError"

\* the keys a PATCH update is to send: the caller's keys (the changed set
\* when none are given) that are in the changed set
IntendedPatchKeys ==
    (IF IsNone(last.arg) THEN Pre.changed ELSE last.arg[1]) \cap Pre.changed

\* C3: a PATCH update with changed set C and caller keys K (every K, the
\* empty set included; K = C when none are given) sends exactly the keys of
\* K \cap C with their stored values, and after a success response (here:
\* one that carries a body) the changed set is C minus the sent keys.
PatchSendsIntersection ==
    (last.op = "patch" /\ HasId(Pre) /\ Pre.parent = "")
    => /\ OneRequest("PATCH", OwnPath(Pre))
       /\ last.out.reqs[1].payload =
              Some([k \in IntendedPatchKeys |-> Pre.attrs[k]])
       /\ (AnsweredWithSuccess /\ ~IsNone(last.server[1].body)) =>
              /\ last.out.err = ""
              /\ Post.changed = Pre.changed \ IntendedPatchKeys

\* C4: a PUT update sends the attribute store, every field and nothing
\* else, and after a success response the response fields are merged into
\* the store and the changed set is empty.
PutSendsAttributeStore ==
    (last.op = "put" /\ HasId(Pre) /\ Pre.parent = "")
    => /\ OneRequest("PUT", OwnPath(Pre))
       /\ last.out.reqs[1].payload = Some(Pre.attrs)
       /\ (AnsweredWithSuccess /\ ~IsNone(last.server[1].body)) =>
              /\ last.out.err = ""
              /\ Post.attrs = Update(Pre.attrs, last.server[1].body[1])
              /\ Post.changed = {}

\* the path read issues its GET at: the parent's current path (the parents
\* of the model have no parent themselves), then the type's template
\* formatted with the key arguments
ReadPath ==
    (IF last.arg.parent = "" THEN <<>> ELSE OwnPath(Pre))
    \o Format(PathTemplate(last.name), Zip(Pk(last.name), last.arg.args))

\* the store holds the fields of a response body, a field named like a
\* relation of the type under '__' + name
HoldsFields(t, attrs, body) ==
    /\ Cardinality(DOMAIN attrs) = Cardinality(DOMAIN body)
    /\ \A k \in DOMAIN body :
          LET n == IF k \in RelationNames(t) THEN "__" \o k ELSE k
          IN  n \in DOMAIN attrs /\ attrs[n] = body[k]

\* C10: read(key args, parent) issues exactly one GET at the parent's
\* current path followed by the type's path formatted with the key args; on
\* an empty or falsy body it returns no resource and creates no instance;
\* otherwise it returns an instance whose store holds the response fields,
\* whose primary-key values are the arguments, whose parent is the given
\* parent, whose fetched flag is true and whose changed set is empty.
ReadBindsInstance ==
    (last.op = "read" /\ (last.arg.parent # "" => HasId(Pre)))
    => /\ OneRequest("GET", ReadPath)
       /\ AnsweredWithSuccess =>
              IF Falsy(last.server[1].body)
              THEN /\ last.out.err = "" /\ last.out.data = None
                   /\ ~Exists(last.inst)
              ELSE /\ last.out.err = "" /\ last.out.data = Some(last.inst)
                   /\ Exists(last.inst)
                   /\ Post.cls = last.name
                   /\ HoldsFields(last.name, Post.attrs, last.server[1].body[1])
                   /\ Post.pkvals = Some(last.arg.args)
                   /\ Post.parent = last.arg.parent
                   /\ Post.fetched
                   /\ Post.changed = {}

\* a read of an item under a shop that the server answered with fields
ReadUnderParent ==
    /\ last.op = "read" /\ last.name = "Item" /\ last.arg.parent = "x"
    /\ last.out.data = Some("y")
    /\ Exists("y") /\ heap["y"][1].parent = "x"
    /\ DOMAIN heap["y"][1].attrs = {"id", "name"}

----------------------------------------------------------------------------
(* Properties of the instance's fetched flag and of the relations. *)

\* an access to an attribute absent from the store of a fetched instance
\* fails with AttributeError and issues no request
TerminalMiss ==
    (last.op = "getattr" /\ Pre.fetched /\ last.name \notin DOMAIN Pre.attrs)
    => last.out.err = "AttributeError" /\ last.out.reqs = <<>>

\* no operation takes the fetched flag of an instance back
FetchedStays ==
    \A i \in Insts :
        (Exists(i) /\ heap[i][1].fetched)
        => ~IsNone(heap'[i]) /\ heap'[i][1].fetched

\* C2: once an instance is fetched, by read or by an implicit fetch, it is
\* fetched in every later state, whatever accesses, assignments, updates,
\* deletes and relation resolutions follow, and an access to an attribute
\* absent from its store fails with AttributeError without any request.
FetchedIsTerminal == [](TerminalMiss) /\ [][FetchedStays]_vars

\* a miss on a fetched shop that was assigned to and whose items were
\* resolved before
MissAfterMutations ==
    /\ last.op = "getattr" /\ last.name = "zip"
    /\ Pre.fetched /\ Pre.changed # {}
    /\ Cached(cache, "items", last.inst)
    /\ last.out.err = "AttributeError"

\* C8: the first access to an eager Many relation on an owner resolves it
\* with one call of the pagination engine, and every later access on that
\* owner, whatever happened to the owner in between, returns the very
\* object the cache holds for the owner and issues no request.
EagerManyResolvesOnce ==
    (last.op = "relation" /\ last.name = "items")
    => IF last.arg.cached
       THEN /\ last.out.err = ""
            /\ last.out.data = last.arg.held
            /\ last.out.reqs = <<>>
            /\ cache[CacheKey("items", last.inst)] = last.arg.held[1]
       ELSE (last.out.err = "" /\ "items" \notin DOMAIN Pre.attrs)
            => /\ Cached(cache, "items", last.inst)
               /\ last.out.data = Some(cache[CacheKey("items", last.inst)])
               /\ Len(last.out.reqs) = Len(last.server)
               /\ Len(last.out.reqs) >= 1

\* C9: a Foreign relation in embedded mode, on an owner that holds the
\* sub-document under the key property, resolves without any request; one
\* in referenced mode resolves with exactly one read of the target: one GET
\* at the target's path for the key the owner holds, with the owner's
\* credential.
ForeignResolution ==
    (/\ last.op = "relation" /\ last.name \in ForeignNames
     /\ ~last.arg.cached /\ last.name \notin DOMAIN Pre.attrs
     /\ KeyProperty(last.name) \in DOMAIN Pre.attrs
     /\ HasId(Pre))
    => IF Embedded(last.name)
       THEN last.out.err = "" /\ last.out.reqs = <<>>
       ELSE /\ OneRequest("GET", Format(PathTemplate(RelModel(last.name)),
                                 Zip(Pk(RelModel(last.name)),
                                     <<Some(Pre.attrs[KeyProperty(last.name)])>>)))
            /\ last.out.reqs[1].auth = InstAuth(Pre)

----------------------------------------------------------------------------
(* Properties of the footprint and of the current path. *)

\* read returned an instance
ReadMadeInstance ==
    last.op = "read" /\ last.out.err = "" /\ ~IsNone(last.out.data)

\* C11: the footprint of an instance returned by read(k1, ..., kn) maps the
\* i-th primary-key field to ki, for every i, and an operation that only
\* computes footprints and paths (delete) leaves the instance as it was.
FootprintBindsEveryKey ==
    /\ ReadMadeInstance
       => Footprint(Post) = Zip(Pk(last.name), last.arg.args)
    /\ (last.op = "delete" /\ HasId(Pre)) => Post = Pre

\* the current path of the parent of an instance, empty without a parent
ParentPath(o) == IF o.parent = "" THEN <<>> ELSE OwnPath(heap[o.parent][1])

\* a request of delete goes to the parent's path followed by the type's
\* template formatted with the own footprint
PathComposes ==
    (/\ last.op = "delete" /\ Len(last.out.reqs) = 1
     /\ Pre.parent # "" => HasId(heap[Pre.parent][1]))
    => last.out.reqs[1].url = <<"base">> \o ParentPath(Pre) \o OwnPath(Pre)

\* a delete that follows the read of its instance goes where the read went
ReadPathKept ==
    (/\ ReadMadeInstance
     /\ last'.op = "delete" /\ last'.inst = last.inst
     /\ Len(last'.out.reqs) = 1)
    => last'.out.reqs[1].url = last.out.reqs[1].url

\* C12: the current path is the parent's current path followed by the
\* type's template formatted with the own footprint, and for an instance
\* returned by read the path of a later call is the path read issued its
\* GET to.
CurrentPathIsReadPath == [](PathComposes) /\ [][ReadPathKept]_vars

----------------------------------------------------------------------------
(* Equality of instances. *)

\* self._id read for a comparison: the bound key, else the id field; the
\* lookup of a missing id fails (on an unfetched instance the implicit
\* fetch needs the path, the path the id, without end)
IdRead(o) ==
    IF HasId(o) THEN Returned(Id(o), None, <<>>)
    ELSE Raised(IF o.fetched THEN "AttributeError" ELSE "RuntimeError", 0, <<>>)

\* Model.__eq__(self, other)
EqMethod(self, other) ==
    IF ~IsSubtype(other.cls, self.cls) THEN Returned(Some("False"), None, <<>>)
    ELSE IF IdRead(self).err # "" THEN IdRead(self)
    ELSE IF IdRead(other).err # "" THEN IdRead(other)
    ELSE Returned(Some(IF Id(self) = Id(other) THEN "True" ELSE "False"),
                  None, <<>>)

\* a == b calls the method of the left operand
EqLeftOperandFirst(a, b) == EqMethod(a, b)

\* a == b: the interpreter calls the method of the right operand first when
\* its type is a proper subclass of the left operand's type
Eq(a, b) ==
    IF a.cls # b.cls /\ IsSubtype(b.cls, a.cls) THEN EqMethod(b, a)
    ELSE EqMethod(a, b)

\* the types of the instances that are compared
EqTypes == {"Note", "Memo", "Item"}

\* cls(**kwargs), for the types that are compared
DoConstructAny(i) ==
    /\ ~Exists(i)
    /\ \E t \in EqTypes : \E kwargs \in Dicts(t, LocalValue) :
        /\ heap' = [heap EXCEPT ![i] = Some(Construct(t, "", kwargs))]
        /\ last' = Done("construct", i, "", kwargs, NoOut, None, <<>>)
    /\ UNCHANGED <<cache, wrappers>>

\* cls.read(*args), for the types that are compared
DoReadAny(i) ==
    /\ ~Exists(i)
    /\ \E t \in EqTypes : \E args \in ReadArgs(t), response \in Responses(t) :
        \E r \in {Read(heap, i, t, args, "", "none", response)} :
            /\ heap' = r.heap
            /\ last' = Done("read", i, t, [args |-> args, parent |-> ""],
                            r.out, None, Consumed(<<response>>, r.out))
    /\ UNCHANGED <<cache, wrappers>>

\* heap[i] == heap[j]
DoEq(i, j) ==
    /\ Exists(i) /\ Exists(j)
    /\ last' = Done("eq", i, j, <<>>, Eq(heap[i][1], heap[j][1]), heap[i], <<>>)
    /\ UNCHANGED <<heap, cache, wrappers>>

\* two instances, made by the constructor or by read, compared both ways
NextEq ==
    \/ DoConstructAny("x")
    \/ DoConstructAny("y")
    \/ DoReadAny("x")
    \/ DoReadAny("y")
    \/ DoEq("x", "y")
    \/ DoEq("y", "x")

SpecEq == Init /\ [][NextEq]_vars

\* the other operand of the last comparison
Other == heap[last.name][1]

\* C13: two instances whose keys can be read compare equal iff they are of
\* the same concrete type and their last primary-key components are equal,
\* whatever their other key components; a == b and b == a agree.
EqualIffSameTypeAndKey ==
    (last.op = "eq" /\ HasId(Pre) /\ HasId(Other))
    => /\ last.out.err = ""
       /\ last.out.data =
              Some(IF Pre.cls = Other.cls /\ Id(Pre) = Id(Other)
                   THEN "True" ELSE "False")
       /\ Eq(Other, Pre) = last.out

\* a note compared with a memo of the same key: not equal
SupertypeComparedWithSubtype ==
    /\ last.op = "eq" /\ Pre.cls = "Note" /\ Other.cls = "Memo"
    /\ HasId(Pre) /\ HasId(Other) /\ Id(Pre) = Id(Other)
    /\ last.out.data = Some("False")

\* two reads of the same key, compared: equal
TwoReadsCompared ==
    /\ last.op = "eq" /\ Pre.cls = "Item" /\ Other.cls = "Item"
    /\ Pre.fetched /\ Other.fetched
    /\ Pre.pkvals = Other.pkvals /\ ~IsNone(Pre.pkvals)
    /\ last.out.data = Some("True")

----------------------------------------------------------------------------
(* Properties of the changed set. *)

\* the last operation made the instance it names
MadeInstance ==
    last.op = "construct" \/ ReadMadeInstance

\* C14: the changed set of every instance holds field names only, never a
\* reserved name; it is empty right after construction and right after
\* read; an assignment to a field adds the field and one to a reserved name
\* adds nothing; merging a server response never adds to it.
ChangedHoldsAssignedFields ==
    /\ \A i \in Insts :
          Exists(i) => heap[i][1].changed \subseteq FieldNames(heap[i][1].cls)
    /\ MadeInstance => Post.changed = {}
    /\ last.op = "setattr"
       => Post.changed = Pre.changed \cup (IF last.name \in FieldNames(Pre.cls)
                                           THEN {last.name} ELSE {})
    /\ last.op \in {"getattr", "patch", "put", "delete", "relation"}
       => Post.changed \subseteq Pre.changed

\* an assignment to _auth on an instance with a changed field
ReservedNameAssigned ==
    /\ last.op = "setattr" /\ last.name = "_auth"
    /\ Pre.changed # {} /\ Post.changed = Pre.changed
    /\ Post.auth = "instCred"

----------------------------------------------------------------------------
(* The collection wrappers (WrappedList, LazyList) and the element mapper. *)
(* An element of a collection is a raw entry (a dict), an instance of the  *)
(* target model, or anything else.  An instance that a slot keeps has a    *)
(* serial number, its identity; one that is handed out and kept nowhere    *)
(* has the number 0.                                                       *)

\* the mapper converts whatever it is given
MapperConvertingAlways(data, model, owner, id) ==
    [err |-> "",
     entry |-> Entry("instance", id,
                     [Construct(model, "", IF data.kind = "dict" THEN data.obj
                                           ELSE <<>>)
                         EXCEPT !.owner = owner])]

\* Many._with_owner(owner), the mapper applied to data
Mapper(data, model, owner, id) ==
    CASE data.kind = "dict" ->
           [err |-> "",
            entry |-> Entry("instance", id,
                            [Construct(model, "", data.obj) EXCEPT !.owner = owner])]
      [] data.kind = "instance" -> [err |-> "", entry |-> data]
      [] OTHER -> [err |-> "TypeError", entry |-> data]

\* the mapper applied to every element in order; the instances made get the
\* serial numbers from next on (0: they get none)
Mapped(items, owner, next) ==
    [k \in 1..Len(items) |->
        Mapper(items[k], "Item", owner,
               IF next = 0 THEN 0
               ELSE next + Cardinality({j \in 1..(k - 1) : items[j].kind = "dict"}))]

\* the elements before the first one the mapper fails on
Convertible(items) ==
    SubSeq(items, 1,
           IF \E k \in 1..Len(items) : items[k].kind = "other"
           THEN (CHOOSE k \in 1..Len(items) :
                    /\ items[k].kind = "other"
                    /\ \A j \in 1..(k - 1) : items[j].kind # "other") - 1
           ELSE Len(items))

\* the serial number of the next instance a list memoizes
NextSerial(items) ==
    1 + Cardinality({k \in 1..Len(items) : items[k].kind = "instance"})

\* what an operation on a collection object gives: the object and the outcome
ListResult(list, out) == [list |-> list, out |-> out]

\* the slot is overwritten only when the access converted nothing
GetItemKeepingRaw(wl, k) ==
    ListResult(wl, Returned(
        Some(Mapper(wl.items[k], "Item", wl.owner, NextSerial(wl.items)).entry),
        None, <<>>))

\* WrappedList.__getitem__(key) for an index: the slot k
GetItem(wl, k) ==
    IF wl.items[k].kind # "dict"
    THEN ListResult(wl, Returned(Some(wl.items[k]), None, <<>>))
    ELSE ListResult(
            [wl EXCEPT !.items[k] =
                Mapper(wl.items[k], "Item", wl.owner, NextSerial(wl.items)).entry],
            Returned(Some(Mapper(wl.items[k], "Item", wl.owner,
                                 NextSerial(wl.items)).entry), None, <<>>))

\* WrappedList.__getslice__(i, j), 0 <= i <= j <= len: the slots i+1..j
GetSlice(wl, i, j) ==
    IF \A k \in (i + 1)..j : wl.items[k].kind # "dict"
    THEN ListResult(wl, Returned(Some(SubSeq(wl.items, i + 1, j)), None, <<>>))
    ELSE IF \E k \in (i + 1)..j : wl.items[k].kind = "other"
    THEN ListResult(wl, Raised("TypeError", 0, <<>>))
    ELSE ListResult(
            [wl EXCEPT !.items =
                [k \in 1..Len(wl.items) |->
                    IF i < k /\ k <= j
                    THEN Mapped(SubSeq(wl.items, i + 1, j), wl.owner,
                                NextSerial(wl.items))[k - i].entry
                    ELSE wl.items[k]]],
            Returned(Some([k \in 1..(j - i) |->
                             Mapped(SubSeq(wl.items, i + 1, j), wl.owner,
                                    NextSerial(wl.items))[k].entry]),
                     None, <<>>))

\* the instances a generator yields from items until the mapper fails
Yielded(items, owner) ==
    [k \in 1..Len(Convertible(items)) |-> Mapped(items, owner, 0)[k].entry]

\* the iteration stores what it converted
IterMemoizing(wl) ==
    ListResult([wl EXCEPT !.items = Yielded(wl.items, wl.owner)
                                    \o SubSeq(wl.items,
                                              Len(Convertible(wl.items)) + 1,
                                              Len(wl.items))],
               Returned(Some(Yielded(wl.items, wl.owner)), None, <<>>))

\* WrappedList.__iter__, run to its end: the mapper applied to every element
Iter(wl) ==
    ListResult(wl,
        [(IF Len(Convertible(wl.items)) < Len(wl.items)
          THEN Raised("TypeError", 0, <<>>)
          ELSE Returned(None, None, <<>>))
         EXCEPT !.data = Some(Yielded(wl.items, wl.owner))])

\* the events of an iteration, in order: a request is an element of kind
\* "request", a yield is the instance handed to the consumer
RequestEvents(reqs) ==
    [k \in 1..Len(reqs) |-> Entry("request", 0, reqs[k].url)]

\* what a generator leaves: the error that ended it, its events, its requests
Trace(err, status, events, reqs) ==
    [err |-> err, errStatus |-> status, errBody |-> None,
     data |-> Some(events), cont |-> None, reqs |-> reqs]

RECURSIVE LazyFrom(_, _, _, _, _)

\* the iteration ends with the first page
LazyThenStopping(out, events, rest) == Trace("", 0, events, out.reqs)

\* the rest of the iteration, after the pages behind the next locator gave
\* rest
LazyThen(out, events, rest) ==
    Trace(rest.err, rest.errStatus, events \o rest.data[1], out.reqs \o rest.reqs)

\* the entries of the page in out that a consumer asking for take gets to
Asked(out, take) ==
    IF take < Len(SanitizeData(out.data))
    THEN SubSeq(SanitizeData(out.data), 1, take)
    ELSE SanitizeData(out.data)

\* the fetcher for the next page is called as soon as the last entry of a
\* page is handed out
LazyPagePrefetching(server, out, auth, owner, take) ==
    IF out.err # ""
    THEN Trace(out.err, out.errStatus, RequestEvents(out.reqs), out.reqs)
    ELSE IF Len(Convertible(Asked(out, take))) < Len(Asked(out, take))
    THEN Trace("TypeError", 0,
               RequestEvents(out.reqs) \o Yielded(Asked(out, take), owner),
               out.reqs)
    ELSE IF take < Len(SanitizeData(out.data))
    THEN Trace("", 0,
               RequestEvents(out.reqs) \o Yielded(Asked(out, take), owner),
               out.reqs)
    ELSE LazyThen(out,
                  RequestEvents(out.reqs) \o Yielded(Asked(out, take), owner),
                  LazyFrom(server, out.cont, auth, owner,
                           IF take = Len(SanitizeData(out.data)) THEN 1
                           ELSE take - Len(SanitizeData(out.data))))

\* LazyList.__iter__ after fetcher() got out from _rest_call: the entries of
\* the page are yielded one by one, each through the mapper, while the
\* consumer asks; the next fetcher is called when the page is exhausted
LazyPage(server, out, auth, owner, take) ==
    IF out.err # ""
    THEN Trace(out.err, out.errStatus, RequestEvents(out.reqs), out.reqs)
    ELSE IF Len(Convertible(Asked(out, take))) < Len(Asked(out, take))
    THEN Trace("TypeError", 0,
               RequestEvents(out.reqs) \o Yielded(Asked(out, take), owner),
               out.reqs)
    ELSE IF take <= Len(SanitizeData(out.data))
    THEN Trace("", 0,
               RequestEvents(out.reqs) \o Yielded(Asked(out, take), owner),
               out.reqs)
    ELSE LazyThen(out,
                  RequestEvents(out.reqs) \o Yielded(Asked(out, take), owner),
                  LazyFrom(server, out.cont, auth, owner,
                           take - Len(SanitizeData(out.data))))

\* LazyList.__iter__ from the fetcher bound to url, for a consumer that asks
\* for take entries: while fetcher: data, fetcher = fetcher(); ...
LazyFrom(server, url, auth, owner, take) ==
    IF take = 0 \/ IsNone(url) THEN Trace("", 0, <<>>, <<>>)
    ELSE LazyPage(server,
                  RestCall(server, url[1], "GET", FALSE,
                           Kw(auth, None, ClsAuth("Item"))),
                  auth, owner, take)

\* the collections the server holds behind a relation path: pages of two
\* entries, of one entry, of one element that is no entry, and failures
CollPages ==
    {[status |-> 200, body |-> Some(<<Entry("dict", 0, [id |-> "a"]),
                                      Entry("dict", 0, [id |-> "b"])>>)],
     [status |-> 200, body |-> Some(<<Entry("dict", 0, [id |-> "c"])>>)],
     [status |-> 200, body |-> Some(<<Entry("other", 0, <<>>)>>)],
     [status |-> 404, body |-> None]}
CollChains ==
    UNION {[1..n -> CollPages] : n \in 1..MaxRelPages}
    \cup {<<[status |-> 200, body |-> None]>>}

\* what a step on the collection object n leaves for the properties: the
\* object before the step is kept under before
ListDone(op, n, r, i, j, server) ==
    Done(op, wrappers[n].owner, ToString(n),
         [n |-> n, i |-> i, j |-> j, before |-> wrappers[n]],
         r.out, heap[wrappers[n].owner], server)

\* collection[k]
DoIndex ==
    /\ \E n \in 1..Len(wrappers) : \E k \in 1..Len(wrappers[n].items) :
        /\ wrappers[n].kind = "WrappedList"
        /\ \E r \in {GetItem(wrappers[n], k)} :
            /\ wrappers' = [wrappers EXCEPT ![n] = r.list]
            /\ last' = ListDone("index", n, r, k, k, <<>>)
    /\ UNCHANGED <<heap, cache>>

\* collection[i:j]
DoSlice ==
    /\ \E n \in 1..Len(wrappers) :
       \E i \in 0..Len(wrappers[n].items), j \in 0..Len(wrappers[n].items) :
        /\ wrappers[n].kind = "WrappedList" /\ i <= j
        /\ \E r \in {GetSlice(wrappers[n], i, j)} :
            /\ wrappers' = [wrappers EXCEPT ![n] = r.list]
            /\ last' = ListDone("slice", n, r, i, j, <<>>)
    /\ UNCHANGED <<heap, cache>>

\* list(collection) on an eager collection
DoIterate ==
    /\ \E n \in 1..Len(wrappers) :
        /\ wrappers[n].kind = "WrappedList"
        /\ \E r \in {Iter(wrappers[n])} :
            /\ wrappers' = [wrappers EXCEPT ![n] = r.list]
            /\ last' = ListDone("iterate", n, r, 0, 0, <<>>)
    /\ UNCHANGED <<heap, cache>>

\* how many iterations in a row the coming one makes
Nth == IF last.op = "lazy" THEN last.arg.j + 1 ELSE 1

\* an iteration over a lazy collection by a consumer that asks for take
\* entries and then leaves it; pages is what the server holds
DoIterateLazy ==
    /\ Nth <= MaxIterations
    /\ \E n \in 1..Len(wrappers), take \in 0..MaxTake, pages \in CollChains :
        /\ wrappers[n].kind = "LazyList"
        /\ \E out \in {LazyFrom(LinkPages(pages), Some(wrappers[n].url),
                                InstAuth(heap[wrappers[n].owner][1]),
                                wrappers[n].owner, take)} :
            last' = ListDone("lazy", n, [out |-> out], take, Nth, pages)
    /\ UNCHANGED <<heap, cache, wrappers>>

\* collection[k].name, after collection[k] gave got: the attribute is
\* looked up on the element, which holds no slot of the heap and stands in
\* the slot "y" of h for the lookup; what a fetch merges into the element
\* shows in the collection, the slot holding the same object
ElementGetAttr(h, got, k, name, answers) ==
    LET r == GetAttr([h EXCEPT !["y"] = Some(got.out.data[1].obj)], "y",
                     name, answers)
    IN  ListResult([got.list EXCEPT !.items[k].obj = r.heap["y"][1]], r.out)

\* collection[k].name on a slot holding a raw entry or an instance; elem is
\* the instance collection[k] gave, before the attribute was looked up
DoIndexAttr ==
    /\ \E n \in 1..Len(wrappers) : \E k \in 1..Len(wrappers[n].items) :
       \E name \in FieldNames("Item"),
          empties \in 0..MaxDepth, final \in Responses("Item") :
        /\ wrappers[n].kind = "WrappedList"
        /\ wrappers[n].items[k].kind \in {"dict", "instance"}
        /\ empties = MaxDepth => final = [status |-> 200, body |-> None]
        /\ \E got \in {GetItem(wrappers[n], k)} :
           \E r \in {ElementGetAttr(heap, got, k, name, Answers(empties, final))} :
            /\ wrappers' = [wrappers EXCEPT ![n] = r.list]
            /\ last' = Done("elemattr", wrappers[n].owner, name,
                            [n |-> n, i |-> k, before |-> wrappers[n],
                             elem |-> got.out.data[1].obj],
                            r.out, heap[wrappers[n].owner],
                            Consumed(Answers(empties, final), r.out))
    /\ UNCHANGED <<heap, cache>>

\* the collections the elements are read from: one page
ElemChains == {<<page>> : page \in CollPages}

\* a shop, its eager collection, and attributes read on its elements
NextElem ==
    \/ DoConstruct("x")
    \/ DoGetManyOf("x", "items", ElemChains)
    \/ DoIndexAttr

SpecElem == Init /\ [][NextElem]_vars

\* a shop and its eager collection, resolved, indexed, sliced and iterated
NextColl ==
    \/ DoConstruct("x")
    \/ DoGetManyOf("x", "items", CollChains)
    \/ DoIndex
    \/ DoSlice
    \/ DoIterate

SpecColl == Init /\ [][NextColl]_vars

\* a shop and its lazy collection, resolved and iterated again and again,
\* the shop's credential changing in between
NextLazy ==
    \/ DoConstruct("x")
    \/ DoSetAttr("x")
    \/ DoGetManyOf("x", "feed", CollChains)
    \/ DoIterateLazy

SpecLazy == Init /\ [][NextLazy]_vars

----------------------------------------------------------------------------
(* Properties of the lazy collection. *)

\* the events of the last iteration and the pages the server held
Events == last.out.data[1]
Held == last.server

\* the raw entries of page p
EntriesOf(p) == IF IsNone(Held[p].body) THEN <<>> ELSE Held[p].body[1]

\* how many entries the pages 1..p hold
RECURSIVE EntriesUpTo(_)
EntriesUpTo(p) == IF p = 0 THEN 0 ELSE EntriesUpTo(p - 1) + Len(EntriesOf(p))

\* every page is a success and every element a raw entry
AllPagesGood ==
    \A p \in 1..Len(Held) :
        /\ Is2xx(Held[p].status)
        /\ \A k \in 1..Len(EntriesOf(p)) : EntriesOf(p)[k].kind = "dict"

\* the request for page k: the relation path for the first page, the
\* locator the server gave for a later one
IsPageRequest(req, k) ==
    /\ req.method = "GET"
    /\ req.url = IF k = 1 THEN GetSanitizedUrl(last.arg.before.url) ELSE PageUrl(k)

\* an iteration run to its end over good pages issues one request per page,
\* from page one on
CompleteIterationAsksEveryPage ==
    (/\ last.op = "lazy" /\ AllPagesGood
     /\ last.arg.i > EntriesUpTo(Len(Held)))
    => /\ last.out.err = ""
       /\ Len(last.out.reqs) = Len(Held)
       /\ \A k \in 1..Len(Held) : IsPageRequest(last.out.reqs[k], k)

\* resolving the lazy relation issues no request
LazyResolveAsksNothing ==
    (last.op = "relation" /\ last.name = "feed" /\ last.out.err = "")
    => last.out.reqs = <<>>

\* an iteration leaves nothing in the collection object
IterationKeepsNothing == last'.op = "lazy" => wrappers' = wrappers

\* C15: resolving a lazy Many relation issues no request; every complete
\* iteration over an n-page collection, the first one and every one after
\* it, starts at page one and issues n requests, one per page; an iteration
\* keeps nothing in the collection.
LazyIterationsRestart ==
    /\ [](LazyResolveAsksNothing /\ CompleteIterationAsksEveryPage)
    /\ [][IterationKeepsNothing]_vars

\* the second complete iteration in a row over a two-page collection
SecondCompleteIteration ==
    /\ last.op = "lazy" /\ last.arg.j = 2
    /\ Len(Held) = 2 /\ AllPagesGood
    /\ last.arg.i > EntriesUpTo(2)
    /\ Len(last.out.reqs) = 2

\* the positions of the yields among the events, and how many yields come
\* before the position q
YieldsBefore(q) ==
    Cardinality({k \in 1..(q - 1) : Events[k].kind = "instance"})
RequestsBefore(q) ==
    Cardinality({k \in 1..(q - 1) : Events[k].kind = "request"})

\* the page and the place in it of the y-th entry of the collection
PageOfEntry(y) ==
    CHOOSE p \in 1..Len(Held) : EntriesUpTo(p - 1) < y /\ y <= EntriesUpTo(p)

\* the event at q is the yield of the y-th entry of the collection: an
\* instance seeded with the entry's fields, owned by the collection's owner
YieldsEntry(q, y) ==
    /\ y <= EntriesUpTo(Len(Held))
    /\ Events[q].obj.attrs =
           EntriesOf(PageOfEntry(y))[y - EntriesUpTo(PageOfEntry(y) - 1)].obj
    /\ Events[q].obj.owner = last.arg.before.owner

\* C16: in one iteration of a lazy collection the entries are yielded in
\* page order and in-page order; the request for page k+1 comes only after
\* every entry of page k was yielded and only when the consumer asks for
\* more; an iteration left before the page is exhausted, or right at its
\* last entry, never requests the next page.
LazyYieldsInPageOrder ==
    last.op = "lazy"
    => /\ YieldsBefore(Len(Events) + 1) <= last.arg.i
       /\ \A q \in 1..Len(Events) :
            IF Events[q].kind = "instance"
            THEN YieldsEntry(q, YieldsBefore(q) + 1)
            ELSE /\ Events[q].obj = last.out.reqs[RequestsBefore(q) + 1].url
                 /\ IsPageRequest(last.out.reqs[RequestsBefore(q) + 1],
                                  RequestsBefore(q) + 1)
                 /\ YieldsBefore(q) = EntriesUpTo(RequestsBefore(q))
                 /\ YieldsBefore(q) < last.arg.i

\* the consumer took every entry of the first page of two and left
LeftAtEndOfFirstPage ==
    /\ last.op = "lazy" /\ Len(Held) = 2 /\ AllPagesGood
    /\ last.arg.i = EntriesUpTo(1) /\ last.arg.i = 2
    /\ Len(last.out.reqs) = 1
    /\ YieldsBefore(Len(Events) + 1) = 2

----------------------------------------------------------------------------
(* Properties of the eager collection and of the element mapper. *)

\* the collection object of the last step, before and after it
Before == last.arg.before.items
After == wrappers[last.arg.n].items

\* e is an instance of the target model seeded with the fields of the raw
\* entry raw, with the collection's owner as its owner and nothing changed
ConvertedFrom(e, raw) ==
    /\ e.kind = "instance"
    /\ e.obj.cls = "Item" /\ e.obj.attrs = raw.obj
    /\ e.obj.owner = last.arg.before.owner
    /\ e.obj.changed = {}

\* the instance e is kept in no slot of items
KeptNowhere(e, items) ==
    \A k \in 1..Len(items) : items[k].kind = "instance" => items[k].id # e.id

\* an index access to the slot k
IndexedSlot(k) ==
    /\ last.out.err = ""
    /\ After[k] = last.out.data[1]
    /\ IF Before[k].kind = "dict"
       THEN /\ ConvertedFrom(After[k], Before[k])
            /\ KeptNowhere(After[k], Before)
       ELSE After[k] = Before[k]
    /\ GetItem(wrappers[last.arg.n], k) =
           ListResult(wrappers[last.arg.n], Returned(Some(After[k]), None, <<>>))

\* a slice access to the slots i+1..j, raw entries or instances all of them
SlicedSlots(i, j) ==
    /\ last.out.err = ""
    /\ last.out.data = Some(SubSeq(After, i + 1, j))
    /\ \A k \in (i + 1)..j :
          /\ IF Before[k].kind = "dict"
             THEN /\ ConvertedFrom(After[k], Before[k])
                  /\ KeptNowhere(After[k], Before)
             ELSE After[k] = Before[k]
          /\ \A m \in (i + 1)..j : After[m].id = After[k].id => m = k
          /\ GetItem(wrappers[last.arg.n], k).out.data = Some(After[k])

\* C17: an index or slice access to slots that hold raw entries converts
\* them to instances of the target model and overwrites the slots with
\* them; a later index access to such a slot returns that very instance and
\* converts nothing; the other slots, the length and the order stay.
IndexAccessMemoizes ==
    /\ last.op \in {"index", "slice"}
       => /\ Len(After) = Len(Before)
          /\ \A k \in 1..Len(Before) :
                (k <= last.arg.i - (IF last.op = "index" THEN 1 ELSE 0)
                 \/ k > last.arg.j) => After[k] = Before[k]
    /\ (last.op = "index" /\ Before[last.arg.i].kind # "other")
       => IndexedSlot(last.arg.i)
    /\ (/\ last.op = "slice"
        /\ \A k \in (last.arg.i + 1)..last.arg.j : Before[k].kind # "other")
       => SlicedSlots(last.arg.i, last.arg.j)

\* an index access to a slot that an earlier access converted, in a
\* collection of two or more slots
MemoizedSlotIndexed ==
    /\ last.op = "index" /\ Len(Before) >= 2
    /\ Before[last.arg.i].kind = "instance"
    /\ last.out.data = Some(Before[last.arg.i])

\* what the last full iteration yielded
Yields == last.out.data[1]

\* a full iteration that the mapper did not end
IteratedToTheEnd == last.op = "iterate" /\ last.out.err = ""

\* C18, as stated: a full iteration yields, for every slot, a new instance,
\* never the one an index access memoized in the slot, and leaves every
\* slot as it was.
IterationNeverYieldsMemoized ==
    IteratedToTheEnd
    => /\ After = Before
       /\ Len(Yields) = Len(Before)
       /\ \A k \in 1..Len(Before) :
             /\ Yields[k].kind = "instance"
             /\ KeptNowhere(Yields[k], Before)

\* C18, amended: a full iteration applies the mapper to every slot and
\* leaves every slot as it was; for a slot that holds a raw entry it yields
\* a new instance each time, kept in no slot; for a slot that an index
\* access memoized it yields the memoized instance itself.
IterationMapsEverySlot ==
    IteratedToTheEnd
    => /\ After = Before
       /\ Len(Yields) = Len(Before)
       /\ \A k \in 1..Len(Before) :
             IF Before[k].kind = "dict"
             THEN /\ ConvertedFrom(Yields[k], Before[k])
                  /\ KeptNowhere(Yields[k], Before)
             ELSE Yields[k] = Before[k]

\* a full iteration over a collection with a memoized slot and a raw one
IteratedOverMemoizedAndRaw ==
    /\ IteratedToTheEnd
    /\ \E k \in 1..Len(Before) : Before[k].kind = "instance"
    /\ \E k \in 1..Len(Before) : Before[k].kind = "dict"

\* C19: the mapper, on every element an iteration hands it: a raw entry
\* gives a new instance of the target model with the entry's fields and the
\* relation's owner as its owner; an instance of the target model gives
\* itself; anything else raises TypeError, which ends the iteration there.
MapperByKindOfInput ==
    last.op = "iterate"
    => /\ \A k \in 1..Len(Yields) :
             CASE Before[k].kind = "dict" -> ConvertedFrom(Yields[k], Before[k])
               [] Before[k].kind = "instance" -> Yields[k] = Before[k]
               [] OTHER -> FALSE
       /\ IF Len(Yields) < Len(Before)
          THEN /\ last.out.err = "TypeError"
               /\ Before[Len(Yields) + 1].kind = "other"
          ELSE last.out.err = ""

\* an iteration that met an instance and then an element that is no entry
MapperMetEveryKind ==
    /\ last.op = "iterate" /\ last.out.err = "TypeError"
    /\ Len(Yields) = 2
    /\ Before[1].kind = "instance" /\ Before[2].kind = "dict"
    /\ Before[3].kind = "other"

----------------------------------------------------------------------------
(* Properties of the Foreign relation's cache. *)

\* C20: a Foreign relation is resolved once per owner: an access that
\* finds the owner in the cache returns the cached value, issues no request
\* and leaves the cache entry as it is, and the access that put the entry
\* there returned that same value without an error, also when the read of
\* the target found no resource, so that the first access and the later
\* ones give the same outcome.
ForeignResolvedOnce ==
    (/\ last.op = "relation" /\ last.name \in ForeignNames
     /\ last.name \notin DOMAIN Pre.attrs)
    => IF last.arg.cached
       THEN /\ last.out.err = ""
            /\ last.out.data = last.arg.held
            /\ last.out.reqs = <<>>
            /\ cache[CacheKey(last.name, last.inst)] = last.arg.held[1]
       ELSE Cached(cache, last.name, last.inst)
            => /\ last.out.err = ""
               /\ last.out.data = Some(cache[CacheKey(last.name, last.inst)])

\* the later accesses after a resolution: the cached value, no request
ForeignCacheHit ==
    (/\ last.op = "relation" /\ last.name \in ForeignNames
     /\ last.name \notin DOMAIN Pre.attrs /\ last.arg.cached)
    => /\ last.out.err = ""
       /\ last.out.data = last.arg.held
       /\ last.out.reqs = <<>>
       /\ cache[CacheKey(last.name, last.inst)] = last.arg.held[1]

\* a ticket was resolved and asked for again
TicketAskedAgain ==
    /\ last.op = "relation" /\ last.name = "tix" /\ last.arg.cached
    /\ last.arg.held = Some(InstRef("y"))

\* no ticket was found and the relation was asked for again
NoTicketAskedAgain ==
    /\ last.op = "relation" /\ last.name = "tix" /\ last.arg.cached
    /\ last.arg.held = Some(NoneRef)

----------------------------------------------------------------------------
(* Properties of failed and of deleting operations. *)

\* the operation left the store, the changed set and the fetched flag of
\* the instance as it found them
StateKept ==
    /\ Post.attrs = Pre.attrs
    /\ Post.changed = Pre.changed
    /\ Post.fetched = Pre.fetched

\* the k-th request of the operation was answered with a non-success status
Failed(k) == ~IsSuccess(last.server[k].status)

UpdateFailedWithChanges ==
    /\ last.op \in {"patch", "put"} /\ Len(last.server) = 1 /\ Failed(1)
    /\ Pre.changed # {}

\* C22: delete on an instance that has a current path issues exactly one
\* DELETE at that path; it returns True if and only if the status of the
\* response is a success status (200..299), whatever the body, and fails
\* with ServerResponse otherwise; either way the store, the changed set and
\* the fetched flag of the instance stay.
DeleteIssuesOneDelete ==
    (last.op = "delete" /\ HasId(Pre) /\ Pre.parent = "")
    => /\ OneRequest("DELETE", OwnPath(Pre))
       /\ Len(last.server) = 1
       /\ IF Is2xx(last.server[1].status)
          THEN last.out.err = "" /\ last.out.data = Some("True")
          ELSE /\ last.out.err = "ServerResponse"
               /\ last.out.errStatus = last.server[1].status
       /\ StateKept

\* a delete succeeded on an empty body, and one on a body
DeletedOnEmptyBody ==
    /\ last.op = "delete" /\ last.out.err = "" /\ Len(last.server) = 1
    /\ IsNone(last.server[1].body) /\ last.server[1].status = 299

DeleteRefusedAt300 ==
    /\ last.op = "delete" /\ Len(last.server) = 1
    /\ last.server[1].status = 300 /\ last.out.err = "ServerResponse"

\* C23: del instance.item fails with InvalidOperation for every name, in
\* the store or not, reserved or not, on a fetched instance or not; it
\* issues no request and leaves the instance as it was.
DelAttrAlwaysRefused ==
    last.op = "delattr"
    => /\ last.out.err = "InvalidOperation"
       /\ last.out.reqs = <<>>
       /\ StateKept /\ Post = Pre

\* a field that an assignment put into the store of a fetched instance is
\* deleted
DelOfChangedFieldWhenFetched ==
    /\ last.op = "delattr" /\ Pre.fetched
    /\ last.name \in DOMAIN Pre.attrs /\ last.name \in Pre.changed

----------------------------------------------------------------------------
(* Properties of the method check of the pagination engine. *)

\* C24: a call of the pagination engine with a method outside GET, POST,
\* PUT, DELETE, PATCH fails with InvalidRestMethod and issues no request.
InvalidMethodRefused ==
    (last.op = "rest_call" /\ last.name \notin ALLOWED_HTTP_METHODS)
    => /\ last.out.err = "InvalidRestMethod"
       /\ last.out.reqs = <<>>

\* such a call issues no request, whatever it fails with
InvalidMethodDispatchesNothing ==
    (last.op = "rest_call" /\ last.name \notin ALLOWED_HTTP_METHODS)
    => /\ last.out.err \in {"InvalidRestMethod", "AttributeError"}
       /\ last.out.reqs = <<>>

----------------------------------------------------------------------------
(* Properties of McashModel. *)

\* the heap as the last operation found it: the operation writes to its
\* instance, and to the stored footprints of its ancestors, which are the
\* footprints a path gives again
PreHeap == [heap EXCEPT ![last.inst] = last.pre]

\* save got a success status
SaveAnsweredWithSuccess ==
    last.op = "save" /\ Len(last.server) = 1 /\ Is2xx(last.server[1].status)

\* the request of save: one request, POST at the list path when the create
\* method is POST and no primary-key field has a value, PUT at the current
\* path otherwise, with the fields that are not None and not excluded
SaveRequest ==
    /\ Len(last.out.reqs) = 1
    /\ IF CreateMethod(Pre.cls) = "POST" /\ IdField(Pre.cls) \notin DOMAIN Pre.attrs
       THEN /\ last.out.reqs[1].method = "POST"
            /\ last.out.reqs[1].url
                   = <<"base">> \o CurrentListPath(PreHeap, last.inst).path
       ELSE /\ last.out.reqs[1].method = "PUT"
            /\ last.out.reqs[1].url
                   = <<"base">> \o CurrentPath(PreHeap, last.inst).path
    /\ last.out.reqs[1].payload
           = Some([k \in DOMAIN Pre.attrs \ {"id"} |-> Pre.attrs[k]])

\* what save leaves after a success response with the fields body
SaveMerged(body) ==
    /\ last.out.err = ""
    /\ Post.attrs = body @@ Pre.attrs
    /\ Post.pkvals = Some(<<IF "id" \in DOMAIN Post.attrs
                            THEN Some(Post.attrs["id"]) ELSE None>>)
    /\ Post.changed = {}

\* C25: save issues exactly one request, POST at the list path when the
\* create method is POST and no primary-key field has a value and PUT at
\* the current path (the parent's path first) otherwise; the payload leaves
\* out the fields that are None and the excluded ones; after a success
\* response the fields of the response are merged, the primary-key values
\* are bound from the merged data, an instance created with POST has an id,
\* and the changed set is empty.
SaveIssuesOneRequest ==
    last.op = "save"
    => /\ SaveRequest
       /\ SaveAnsweredWithSuccess
          => /\ SaveMerged(IF IsNone(last.server[1].body) THEN <<>>
                           ELSE last.server[1].body[1])
             /\ last.out.reqs[1].method = "POST" => "id" \in DOMAIN Post.attrs

\* save as it behaves when the success response has a body: the request is
\* as stated, the body is merged, the key is bound from the merged data
\* (None if neither the instance nor the response had an id) and the
\* changed set is empty
SaveWithBodyMerges ==
    last.op = "save"
    => /\ SaveRequest
       /\ (SaveAnsweredWithSuccess /\ ~IsNone(last.server[1].body))
          => SaveMerged(last.server[1].body[1])

\* a changed child was saved with PUT under its parent's path
ChildSavedWithPut ==
    /\ last.op = "save" /\ last.out.err = "" /\ Pre.parent = "x"
    /\ last.out.reqs[1].method = "PUT" /\ Pre.changed # {}

\* a changed ticket was created with POST
TicketCreatedWithPost ==
    /\ last.op = "save" /\ last.out.err = "" /\ Pre.changed # {}
    /\ last.out.reqs[1].method = "POST" /\ "id" \in DOMAIN Post.attrs

\* C26: delete() on a McashModel instance terminates with exactly one
\* DELETE at the instance's current path, returning or failing with
\* ServerResponse.
McashDeleteIssuesOneDelete ==
    (last.op = "delete" /\ HasGet(Pre.cls))
    => /\ Len(last.out.reqs) = 1
       /\ last.out.reqs[1].method = "DELETE"
       /\ last.out.reqs[1].url = <<"base">> \o CurrentPath(PreHeap, last.inst).path
       /\ last.out.err \in {"", "ServerResponse"}

----------------------------------------------------------------------------
(* Iterations over a lazy collection that run at once.  iter(collection)   *)
(* makes a generator; each next() on it runs LazyList.__iter__ up to the   *)
(* next yield.  A generator keeps the fetcher to call next (the local      *)
(* variable fetcher), the rest of the page it is in (the inner for loop),  *)
(* and, for the properties, its events so far.                             *)

\* the generator iter(wl) returns, wl being the collection object n:
\* fetcher = self.__fetcher, and nothing has run yet
Generator(n, wl, server) ==
    [kind |-> "generator", items |-> <<>>, owner |-> wl.owner, url |-> <<>>,
     list |-> n, fetcher |-> Some(wl.url), server |-> server,
     events |-> <<>>, err |-> "", state |-> "running"]

\* yield self.__wrapper(item), the mapper having given m
GenYield(g, m) ==
    IF m.err # "" THEN [g EXCEPT !.err = m.err, !.state = "ended"]
    ELSE [g EXCEPT !.events = Append(@, m.entry), !.items = Tail(@)]

RECURSIVE GenNext(_, _)

\* data, fetcher = fetcher(), _rest_call having given out
GenFetched(g, out, auth) ==
    IF out.err # ""
    THEN [g EXCEPT !.events = @ \o RequestEvents(out.reqs),
                   !.err = out.err, !.state = "ended"]
    ELSE GenNext([g EXCEPT !.events = @ \o RequestEvents(out.reqs),
                           !.items = SanitizeData(out.data),
                           !.fetcher = out.cont],
                 auth)

\* next(generator): the next entry of the page, else the next page, else
\* the end
GenNext(g, auth) ==
    IF g.items # <<>>
    THEN GenYield(g, Mapper(Head(g.items), "Item", g.owner, 0))
    ELSE IF IsNone(g.fetcher) THEN [g EXCEPT !.state = "ended"]
    ELSE GenFetched(g, RestCall(g.server, g.fetcher[1], "GET", FALSE,
                                Kw(auth, None, ClsAuth("Item"))),
                    auth)

\* the fetcher to call next is kept on the collection: every generator of
\* the collection sees where the one that ran last has got to
AdvanceSharingFetcher(w, k, g) ==
    [j \in 1..Len(w) |->
        IF j = k THEN g
        ELSE IF w[j].kind = "generator" /\ w[j].list = g.list
        THEN [w[j] EXCEPT !.fetcher = g.fetcher]
        ELSE w[j]]

\* the objects after generator k ran to g: the fetcher is local to the
\* generator, so nothing else changes
Advance(w, k, g) == [w EXCEPT ![k] = g]

\* the generators that exist
Generators == {k \in 1..Len(wrappers) : wrappers[k].kind = "generator"}

\* iter(collection) on a lazy collection; the server holds one chain of
\* pages while the iterations run
DoIter ==
    /\ Cardinality(Generators) < MaxGenerators
    /\ \E n \in 1..Len(wrappers) :
        /\ wrappers[n].kind = "LazyList"
        /\ \E server \in IF Generators = {}
                         THEN {LinkPages(pages) : pages \in CollChains}
                         ELSE {wrappers[k].server : k \in Generators} :
            /\ wrappers' = Append(wrappers, Generator(n, wrappers[n], server))
            /\ last' = Done("iter", wrappers[n].owner, ToString(n), <<>>,
                            NoOut, heap[wrappers[n].owner], <<>>)
    /\ UNCHANGED <<heap, cache>>

\* next(generator) on a generator that has not ended
DoNext ==
    /\ \E k \in Generators :
        /\ wrappers[k].state = "running"
        /\ wrappers' = Advance(wrappers, k,
                               GenNext(wrappers[k],
                                       InstAuth(heap[wrappers[k].owner][1])))
        /\ last' = Done("next", wrappers[k].owner, ToString(k), <<>>,
                        NoOut, heap[wrappers[k].owner], <<>>)
    /\ UNCHANGED <<heap, cache>>

\* a shop and its lazy collection, with up to MaxGenerators iterations
\* advanced in any order
NextIter ==
    \/ DoConstruct("x")
    \/ DoGetManyOf("x", "feed", CollChains)
    \/ DoIter
    \/ DoNext

SpecIter == Init /\ [][NextIter]_vars

\* what an iteration on its own gives when it is run to its end: its
\* requests and its yields in order, and the error that ended it
Solo(g) ==
    LazyFrom(g.server, Some(wrappers[g.list].url),
             InstAuth(heap[g.owner][1]), g.owner, 2 * MaxRelPages + 1)

IsPrefix(s, t) == Len(s) <= Len(t) /\ s = SubSeq(t, 1, Len(s))

\* C27: iterations over the same lazy collection that are advanced in any
\* interleaving do not interfere: whatever the others did, each generator
\* has issued the requests and yielded the entries that an iteration on its
\* own issues and yields, from page one, in page order, and one that has
\* ended has yielded the complete sequence.
InterleavedIterationsIndependent ==
    \A k \in Generators :
        /\ IsPrefix(wrappers[k].events, Solo(wrappers[k]).data[1])
        /\ wrappers[k].state = "ended"
           => /\ wrappers[k].events = Solo(wrappers[k]).data[1]
              /\ wrappers[k].err = Solo(wrappers[k]).err

\* the second iteration ran over two pages to its end while the first one
\* stood after the first entry of page one
SecondEndedWhileFirstOnPageOne ==
    \E k \in Generators, l \in Generators :
        /\ k < l
        /\ wrappers[k].state = "running" /\ Len(wrappers[k].events) = 2
        /\ wrappers[l].state = "ended" /\ wrappers[l].err = ""
        /\ Len(wrappers[l].events) = 5

----------------------------------------------------------------------------
(* Properties of updates answered without a body. *)

\* an update was answered with a success status and an empty body
UpdateAnsweredWithoutBody ==
    /\ last.op \in {"patch", "put"} /\ Len(last.server) = 1
    /\ Is2xx(last.server[1].status) /\ IsNone(last.server[1].body)

\* C28: an update (PATCH or PUT) answered with a success status and an
\* empty body completes: the store is what it was, and the changed set
\* loses the sent keys (PATCH) or is emptied (PUT).
EmptyBodyUpdateCompletes ==
    UpdateAnsweredWithoutBody
    => /\ last.out.err = ""
       /\ Post.attrs = Pre.attrs
       /\ Post.changed = IF last.op = "put" THEN {}
                         ELSE Pre.changed \ DOMAIN last.out.reqs[1].payload[1]

\* what such an update does: it fails with TypeError after its one request
\* and leaves the instance, the changed set included, as it was
EmptyBodyUpdateFails ==
    UpdateAnsweredWithoutBody
    => /\ last.out.err = "TypeError"
       /\ Len(last.out.reqs) = 1
       /\ StateKept

----------------------------------------------------------------------------
(* Properties of failed resolutions. *)

\* an access to an eager collection or to a referenced relation that did
\* not find the owner in the cache
Resolution ==
    /\ last.op = "relation" /\ last.name \in {"items", "ref", "tix"}
    /\ ~last.arg.cached /\ last.name \notin DOMAIN Pre.attrs

\* a resolution that failed with ServerResponse left no cache entry, and
\* an access that finds no entry, on an owner that has its key, issues a
\* request
ServerResponseLeavesNoEntry ==
    Resolution
    => /\ last.out.err = "ServerResponse"
          => ~Cached(cache, last.name, last.inst)
       /\ (/\ HasId(Pre) /\ last.name # "ref"
           /\ last.name = "tix" => KeyProperty("tix") \in DOMAIN Pre.attrs)
          => Len(last.out.reqs) >= 1

\* C29: when the resolution of an eager Many relation or of a referenced
\* Foreign relation fails with ServerResponse, no cache entry is made for
\* the owner and the next access resolves again with a new request; the
\* cache holds an entry for an owner only after a resolution that completed
\* without an error.
FailedResolutionLeavesNoEntry ==
    /\ ServerResponseLeavesNoEntry
    /\ Resolution
       => (Cached(cache, last.name, last.inst) => last.out.err = "")

----------------------------------------------------------------------------
(* Properties of the credential of updates and deletes. *)

\* an update or a delete issued its request
IssuedWithAuth ==
    last.op \in {"patch", "put", "delete"} /\ Len(last.out.reqs) = 1

\* C30: the request of an update or of a delete called without a
\* credential carries the instance's own credential when the instance has
\* one and the default of the class only when it has none; a credential
\* passed to the call goes before both.
InstanceCredentialBeforeClassDefault ==
    IssuedWithAuth
    => last.out.reqs[1].auth
          = IF last.name # "none" THEN last.name
            ELSE IF Pre.auth # "none" THEN Pre.auth
            ELSE ClsAuth(Pre.cls)

\* what the code does: a passed credential first, then the default of the
\* class when there is one, and the instance's own only when the class has
\* none
ClassDefaultBeforeInstanceCredential ==
    IssuedWithAuth
    => last.out.reqs[1].auth
          = IF last.name # "none" THEN last.name
            ELSE IF ClsAuth(Pre.cls) # "none" THEN ClsAuth(Pre.cls)
            ELSE Pre.auth

----------------------------------------------------------------------------
(* Properties of the instances the element mapper makes. *)

\* collection[k].name made the instance of the slot k from a raw entry
ElementJustMapped ==
    last.op = "elemattr" /\ last.arg.before.items[last.arg.i].kind = "dict"

\* C31: an instance the element mapper made from a raw page entry has its
\* owner set and counts as fetched, so reading an attribute the entry did
\* not contain fails with AttributeError and no request is issued.
MappedElementCountsAsFetched ==
    ElementJustMapped
    => /\ last.arg.elem.owner = last.arg.before.owner
       /\ last.arg.elem.fetched
       /\ last.name \notin DOMAIN last.arg.elem.attrs
            => last.out.err = "AttributeError" /\ last.out.reqs = <<>>

\* what the code does: the owner is set and the instance is as the
\* constructor leaves it, not fetched, so reading an attribute the entry did
\* not contain fetches the instance from the server
MappedElementIsUnfetched ==
    ElementJustMapped
    => /\ last.arg.elem.owner = last.arg.before.owner
       /\ ~last.arg.elem.fetched
       /\ last.name \notin DOMAIN last.arg.elem.attrs
            => /\ Len(last.out.reqs) >= 1
               /\ last.out.reqs[1].method = "GET"

============================================================================
